---- MODULE Spec2Model ----
(***************************************************************************)
(* The session state actor (session/src/state.rs) and the incremental      *)
(* search holder (processor/src/search.rs) of the chipmunk indexer.        *)
(*                                                                         *)
(* The actor owns one SessionState record and handles one command per      *)
(* step.  Text is a sequence of one-character strings, a file is a record  *)
(* [exists, data], and the file system maps the paths the session can use  *)
(* to files.  Every command step records in cmd the command taken from the *)
(* queue and in trace what the handler sent, in the order it sent it:      *)
(* callback events and then the reply on the one-shot channel.             *)
(*                                                                         *)
(* Not modelled: I/O failures of open/read/write/flush, a closed callback  *)
(* channel, SetDebugMode (a flag nothing reads).  Grabber and SearchMap    *)
(* are not part of the sources at hand and are modelled from their         *)
(* documented interface.                                                   *)
(***************************************************************************)
EXTENDS Integers, Sequences, FiniteSets, TLC

VARIABLES state, state_cancellation_token, running, fs, holders, cmd, trace, before, written,
          rx_api, callers

vars == <<state, state_cancellation_token, running, fs, holders, cmd, trace, before, written,
          rx_api, callers>>

----------------------------------------------------------------------------
(* Bounds of the model.                                                    *)

\* Largest number of bytes the session file and the writer's buffer hold together.
MaxBytes == 3
\* Number of callers that send commands and await the replies.
MaxCallers == 2
\* Largest number of commands that wait in the channel.
MaxQueue == 3
\* Largest number of holders search tasks may hold at once (the actor hands out one at a time).
MaxHolders == 2
\* Largest cursor value up to which a search task re-runs a search.
MaxCursor == 4
\* Largest stream length hint given to SetStreamLen.
MaxStreamLen == 1
\* Largest number of bytes of the session file where searches are followed over
\* more than one line.
MaxMapBytes == 5
\* Largest line number a result file on disk holds when the session starts.
MaxGrabLine == 4
\* Largest number of characters of a filter value whose pattern is built on its own.
MaxValueLen == 2
\* The number of values of the type a filter index is stored in. The code stores it
\* `as u8`, which has 256 values; the model has fewer, so that a list of filters can have
\* more filters than the type has values.
MaxIndexValues == 4
\* Largest number of lines of such a result file.
MaxGrabLen == 3

NL == "\n"

\* The operation ids callers use.
UUIDS == {"u1", "u2"}

\* The strings WriteSessionFile is called with: a complete line and a fragment.
Msgs == {<<"a", NL>>, <<"b">>}

\* The content a file adopted with SessionFile::Existed may already have.
ExistedContents == {<<"a", NL>>}

----------------------------------------------------------------------------
(* Small helpers on sequences.                                             *)

Max(a, b) == IF a >= b THEN a ELSE b

Range(s) == {s[i] : i \in 1..Len(s)}

\* s without its first n elements
DropFirst(s, n) == IF n >= Len(s) THEN <<>> ELSE SubSeq(s, n + 1, Len(s))

RECURSIVE Flatten(_)
Flatten(ss) == IF ss = <<>> THEN <<>> ELSE Head(ss) \o Flatten(Tail(ss))

\* number of newline characters in data
RECURSIVE CountNL(_)
CountNL(data) ==
    IF data = <<>> THEN 0
    ELSE (IF Head(data) = NL THEN 1 ELSE 0) + CountNL(Tail(data))

\* The lines of data as BufRead::lines and the searcher see them: split at
\* every newline, the terminator removed; a last piece without a newline is
\* a line too, unless it is empty.
RECURSIVE SplitLines(_, _)
SplitLines(data, cur) ==
    IF data = <<>> THEN (IF cur = <<>> THEN <<>> ELSE <<cur>>)
    ELSE IF Head(data) = NL THEN <<cur>> \o SplitLines(Tail(data), <<>>)
    ELSE SplitLines(Tail(data), Append(cur, Head(data)))

Lines(data) == SplitLines(data, <<>>)

\* format!("{}", n) for an unsigned integer: its decimal digits
Digit(d) == CASE d = 0 -> "0" [] d = 1 -> "1" [] d = 2 -> "2" [] d = 3 -> "3"
              [] d = 4 -> "4" [] d = 5 -> "5" [] d = 6 -> "6" [] d = 7 -> "7"
              [] d = 8 -> "8" [] d = 9 -> "9"

RECURSIVE ToDecimal(_)
ToDecimal(n) == IF n < 10 THEN <<Digit(n)>> ELSE Append(ToDecimal(n \div 10), Digit(n % 10))

DigitValue(c) == CASE c = "0" -> 0 [] c = "1" -> 1 [] c = "2" -> 2 [] c = "3" -> 3
                   [] c = "4" -> 4 [] c = "5" -> 5 [] c = "6" -> 6 [] c = "7" -> 7
                   [] c = "8" -> 8 [] c = "9" -> 9

\* the number a decimal line of the result file stands for
RECURSIVE FromDecimal(_)
FromDecimal(t) ==
    IF t = <<>> THEN 0 ELSE FromDecimal(SubSeq(t, 1, Len(t) - 1)) * 10 + DigitValue(t[Len(t)])

\* the indices as the result file has them: decimal, one per line
DecimalLines(idx) == Flatten([n \in 1..Len(idx) |-> Append(ToDecimal(idx[n]), NL)])

----------------------------------------------------------------------------
(* Filters and their compilation (processor/src/search.rs).                *)

\* A SearchFilter is [value, is_regex, ignore_case, is_word]; value is text.
SearchFilter(value, is_regex, ignore_case, is_word) ==
    [value |-> value, is_regex |-> is_regex, ignore_case |-> ignore_case, is_word |-> is_word]

\* The characters escape() prefixes with a backslash.
EscapedChars == {"{", "}", "[", "]", "+", "$", "^", "/", "!", ".", "*", "|",
                 "(", ")", ":", "?", ",", "=", "<", ">", "\\"}

\* An escape that leaves the comma as it is
RECURSIVE escape_but_comma(_)
escape_but_comma(value) ==
    IF value = <<>> THEN <<>>
    ELSE (IF Head(value) \in EscapedChars \ {","} THEN <<"\\", Head(value)>> ELSE <<Head(value)>>)
         \o escape_but_comma(Tail(value))

RECURSIVE escape(_)
escape(value) ==
    IF value = <<>> THEN <<>>
    ELSE (IF Head(value) \in EscapedChars THEN <<"\\", Head(value)>> ELSE <<Head(value)>>)
         \o escape(Tail(value))

ICaseOn == <<"(", "?", "i", ")">>
ICaseOff == <<"(", "?", "-", "i", ")">>
WordMarker == <<"\\", "b">>

filter_as_regex(filter) ==
    LET word_marker == IF filter.is_word THEN WordMarker ELSE <<>>
        ignore_case_start == IF filter.ignore_case THEN ICaseOn ELSE <<>>
        ignore_case_end == IF filter.ignore_case THEN ICaseOff ELSE <<>>
        subject == IF filter.is_regex THEN filter.value ELSE escape(filter.value)
    IN  ignore_case_start \o word_marker \o subject \o word_marker \o ignore_case_end

\* "(p1|p2|...|pN)": the patterns joined with "|" inside one group
RECURSIVE JoinBar(_)
JoinBar(ps) ==
    IF ps = <<>> THEN <<>>
    ELSE IF Len(ps) = 1 THEN ps[1]
    ELSE ps[1] \o <<"|">> \o JoinBar(Tail(ps))

combined_regex(filters) ==
    <<"(">> \o JoinBar([i \in 1..Len(filters) |-> filter_as_regex(filters[i])]) \o <<")">>

----------------------------------------------------------------------------
(* The regular expressions the model's patterns use: literal characters,   *)
(* "\c" for an escaped character, "." for any character, "\b", the flag    *)
(* groups "(?i)" and "(?-i)" (in force until changed, across "|"),         *)
(* alternation, and one group around the whole pattern.                    *)

IsPrefixAt(p, i, lit) ==
    /\ i + Len(lit) - 1 <= Len(p)
    /\ SubSeq(p, i, i + Len(lit) - 1) = lit

\* A pattern compiles when its brackets balance and no escape is cut off.
RECURSIVE Balanced(_, _, _)
Balanced(p, i, depth) ==
    IF i > Len(p) THEN depth = 0
    ELSE IF p[i] = "\\" THEN i + 1 <= Len(p) /\ Balanced(p, i + 2, depth)
    ELSE IF p[i] = "(" THEN Balanced(p, i + 1, depth + 1)
    ELSE IF p[i] = ")" THEN depth > 0 /\ Balanced(p, i + 1, depth - 1)
    ELSE Balanced(p, i + 1, depth)

regex_compiles(p) == Balanced(p, 1, 0)

Atom(k, c, ic) == [k |-> k, c |-> c, ic |-> ic]

RECURSIVE Atoms(_, _, _)
Atoms(p, i, ic) ==
    IF i > Len(p) THEN <<>>
    ELSE IF IsPrefixAt(p, i, ICaseOn) THEN Atoms(p, i + 4, TRUE)
    ELSE IF IsPrefixAt(p, i, ICaseOff) THEN Atoms(p, i + 5, FALSE)
    ELSE IF IsPrefixAt(p, i, WordMarker) THEN <<Atom("wb", "", ic)>> \o Atoms(p, i + 2, ic)
    ELSE IF p[i] = "\\" THEN <<Atom("lit", p[i + 1], ic)>> \o Atoms(p, i + 2, ic)
    ELSE IF p[i] \in {"(", ")"} THEN Atoms(p, i + 1, ic)
    ELSE IF p[i] = "|" THEN <<Atom("alt", "", ic)>> \o Atoms(p, i + 1, ic)
    ELSE IF p[i] = "." THEN <<Atom("any", "", ic)>> \o Atoms(p, i + 1, ic)
    ELSE <<Atom("lit", p[i], ic)>> \o Atoms(p, i + 1, ic)

RECURSIVE SplitAlt(_, _)
SplitAlt(atoms, cur) ==
    IF atoms = <<>> THEN <<cur>>
    ELSE IF Head(atoms).k = "alt" THEN <<cur>> \o SplitAlt(Tail(atoms), <<>>)
    ELSE SplitAlt(Tail(atoms), Append(cur, Head(atoms)))

Fold(c) == CASE c = "A" -> "a" [] c = "B" -> "b" [] OTHER -> c

WordChars == {"a", "b", "A", "B", "0", "1", "2", "3", "4", "5", "6", "7", "8", "9", "_"}

IsWordAt(line, pos) == pos >= 1 /\ pos <= Len(line) /\ line[pos] \in WordChars

RECURSIVE MatchAt(_, _, _, _)
MatchAt(alt, j, line, pos) ==
    IF j > Len(alt) THEN TRUE
    ELSE IF alt[j].k = "wb"
         THEN IsWordAt(line, pos - 1) # IsWordAt(line, pos) /\ MatchAt(alt, j + 1, line, pos)
    ELSE /\ pos <= Len(line)
         /\ \/ alt[j].k = "any"
            \/ line[pos] = alt[j].c
            \/ alt[j].ic /\ Fold(line[pos]) = Fold(alt[j].c)
         /\ MatchAt(alt, j + 1, line, pos + 1)

\* Regex::is_match / the matcher of the searcher: the pattern matches somewhere in the line
regex_is_match(p, line) ==
    LET alts == SplitAlt(Atoms(p, 1, FALSE), <<>>)
    IN  \E a \in 1..Len(alts) : \E pos \in 1..(Len(line) + 1) : MatchAt(alts[a], 1, line, pos)

----------------------------------------------------------------------------
(* Files.                                                                  *)

\* The session file is either adopted ("ext") or created by the session ("own").
SessionPaths == {"ext", "own"}

OutPath(path) == path \o ".out"

\* A path UpdateSearchResult may be given that names no file.
OtherPath == "other"

Paths == SessionPaths \cup {OutPath(p) : p \in SessionPaths} \cup {OtherPath}

NoFile == [exists |-> FALSE, data |-> <<>>]

File(data) == [exists |-> TRUE, data |-> data]

remove_file(files, path) == [files EXCEPT ![path] = NoFile]

----------------------------------------------------------------------------
(* SearchHolder (processor/src/search.rs).                                 *)

FilterMatch(index, filters) == [index |-> index, filters |-> filters]

\* A SearchHolder::new that starts one byte into the file
SearchHolder_new_resumed(path, filters) ==
    [file_path |-> path, out_file_path |-> OutPath(path), search_filters |-> filters,
     bytes_read |-> 1, lines_read |-> 0]

SearchHolder_new(path, filters) ==
    [file_path |-> path,
     out_file_path |-> OutPath(path),
     search_filters |-> filters,
     bytes_read |-> 0,
     lines_read |-> 0]

set_filters(h, filters) == [h EXCEPT !.search_filters = filters]

\* A Drop for SearchHolder that leaves the result file
drop_holder_kept(h, files) == files

\* Drop for SearchHolder: the result file is removed if it exists
drop_holder(h, files) ==
    IF files[h.out_file_path].exists THEN remove_file(files, h.out_file_path) ELSE files

\* The places, from 1, of the filters whose own matcher matches the line, in order
matching_filters(filters, line) ==
    SelectSeq([i \in 1..Len(filters) |-> i],
              LAMBDA i : regex_is_match(filter_as_regex(filters[i]), line))

\* The indices pushed for them: 0-based, cut to the width of the index type
pushed_indexes(places) == [k \in 1..Len(places) |-> (places[k] - 1) % MaxIndexValues]

\* The filters of a FilterMatch: the index of every filter whose own matcher matches the line
line_filters(filters, line) == pushed_indexes(matching_filters(filters, line))

\* An execute_search that opens the result file before it looks at the filters
search_failed_opened(h, files, err) ==
    [ok |-> FALSE, err |-> err, holder |-> h,
     fs |-> IF files[h.out_file_path].exists THEN files
            ELSE [files EXCEPT ![h.out_file_path] = File(<<>>)],
     path |-> h.out_file_path, matches |-> <<>>, stats |-> {}]

\* Err(err) of execute_search: the holder and the files are as they were
search_failed(h, files, err) ==
    [ok |-> FALSE, err |-> err, holder |-> h, fs |-> files,
     path |-> h.out_file_path, matches |-> <<>>, stats |-> {}]

\* The 1-based numbers, among the lines read, of those the combined matcher matches
matching_lines(combined, lines) ==
    SelectSeq([k \in 1..Len(lines) |-> k], LAMBDA k : regex_is_match(combined, lines[k]))

\* The FilterMatch of every matching line: line_number + lines_read - 1 and its filters
match_indexes(filters, lines, lnums, lines_read) ==
    [n \in 1..Len(lnums) |->
        FilterMatch((lnums[n] + lines_read) - 1, line_filters(filters, lines[lnums[n]]))]

\* What the sink writes to the result file: one decimal line index per match
match_output(lnums, lines_read) ==
    Flatten([n \in 1..Len(lnums) |-> Append(ToDecimal((lnums[n] + lines_read) - 1), NL)])

\* how often the index idx was pushed for the first n matches: each push adds one to
\* stats[idx]
RECURSIVE meets(_, _, _)
meets(indexes, n, idx) ==
    IF n = 0 THEN 0
    ELSE meets(indexes, n - 1, idx)
           + Cardinality({k \in 1..Len(indexes[n].filters) : indexes[n].filters[k] = idx})

\* FiltersStats: per filter index, as it was pushed, the number of times it was pushed
match_stats(filters, indexes) ==
    {<<idx, meets(indexes, Len(indexes), idx)>> :
        idx \in {i \in {(k - 1) % MaxIndexValues : k \in 1..Len(filters)} :
                    meets(indexes, Len(indexes), i) > 0}}

\* The result file is opened for appending, or created
open_out_file(files, out_path) ==
    IF files[out_path].exists THEN files ELSE [files EXCEPT ![out_path] = File(<<>>)]

\* An execute_search that counts the lines of each run from 0
search_done_restarted(h, files, lines, lnums, indexes) ==
    [ok |-> TRUE, err |-> "",
     holder |-> [h EXCEPT !.lines_read = Len(lines),
                          !.bytes_read = Max(Len(files[h.file_path].data), @ + 1)],
     fs |-> [open_out_file(files, h.out_file_path) EXCEPT
                ![h.out_file_path].data = @ \o match_output(lnums, h.lines_read)],
     path |-> h.out_file_path, matches |-> indexes,
     stats |-> match_stats(h.search_filters, indexes)]

\* Ok((out_file_path, matches, stats)) of execute_search over the lines read
search_done(h, files, lines, lnums, indexes) ==
    [ok |-> TRUE, err |-> "",
     \* the reader ends at the end of the file, or where the seek put it when that is further
     holder |-> [h EXCEPT !.lines_read = @ + Len(lines),
                          !.bytes_read = Max(Len(files[h.file_path].data), @ + 1)],
     fs |-> [open_out_file(files, h.out_file_path) EXCEPT
                ![h.out_file_path].data = @ \o match_output(lnums, h.lines_read)],
     path |-> h.out_file_path, matches |-> indexes,
     stats |-> match_stats(h.search_filters, indexes)]

search_lines(h, files, lines, lnums) ==
    search_done(h, files, lines, lnums,
                match_indexes(h.search_filters, lines, lnums, h.lines_read))

\* seek(SeekFrom::Start(bytes_read + 1)): the lines the reader delivers from there
search_from(h, files, lines) ==
    search_lines(h, files, lines, matching_lines(combined_regex(h.search_filters), lines))

\* execute_search: the value returned, the holder after the call and the files after it.
\* ok = FALSE is an Err(err); matches and stats are those of Ok((out_file_path, matches, stats)).
execute_search(h, files) ==
    IF h.search_filters = <<>> THEN search_failed(h, files, "Input")
    ELSE IF ~regex_compiles(combined_regex(h.search_filters))
    THEN search_failed(h, files, "Regex")
    ELSE IF \E i \in 1..Len(h.search_filters) :
                ~regex_compiles(filter_as_regex(h.search_filters[i]))
    THEN search_failed(h, files, "Regex")
    ELSE IF ~files[h.file_path].exists THEN search_failed(h, files, "Grab")
    ELSE search_from(h, files, Lines(DropFirst(files[h.file_path].data, h.bytes_read + 1)))

\* the bytes of the first k lines with their terminators
RECURSIVE BytesOfLines(_, _)
BytesOfLines(lines, k) == IF k = 0 THEN 0 ELSE Len(lines[k]) + 1 + BytesOfLines(lines, k - 1)

\* where the reader stands once it has consumed the first k lines from offset start:
\* just behind the line (back = 0) or on its newline (back = 1), never behind the end
stopped_at(data, start, lines, k, back) ==
    IF start + BytesOfLines(lines, k) - back < Len(data)
    THEN start + BytesOfLines(lines, k) - back
    ELSE Len(data)

\* the scan stopped behind the match number kept: the lines were all counted before
\* the scan, the matches up to there are returned and written
search_stopped(h, files, lines, lnums, kept, back) ==
    [search_lines(h, files, lines, SubSeq(lnums, 1, kept)) EXCEPT
        !.holder.bytes_read =
            stopped_at(files[h.file_path].data, h.bytes_read + 1, lines, lnums[kept], back)]

\* the matches a run from the cursor of h has before it
matches_ahead(h, files) ==
    matching_lines(combined_regex(h.search_filters),
                   Lines(DropFirst(files[h.file_path].data, h.bytes_read + 1)))

\* execute_search(cancel_token) with the token cancelled during the scan: the
\* cancellation is seen in the callback of the match number kept
execute_search_cancelled(h, files, kept, back) ==
    IF ~execute_search(h, files).ok THEN execute_search(h, files)
    ELSE search_stopped(h, files, Lines(DropFirst(files[h.file_path].data, h.bytes_read + 1)),
                        matches_ahead(h, files), kept, back)

----------------------------------------------------------------------------
(* Grabber: a lazy line index over a file.                                 *)

NoGrabber == [some |-> FALSE, path |-> "", has_metadata |-> FALSE, line_count |-> 0]

Grabber_lazy(path) == [some |-> TRUE, path |-> path, has_metadata |-> FALSE, line_count |-> 0]

\* log_entry_count().unwrap_or(0)
log_entry_count(g) == IF g.has_metadata THEN g.line_count ELSE 0

\* update_from_file: the rescan sets the line count to the number of lines of the
\* file; with the token cancelled the scan stops at once and the index stays as it is.
update_from_file(g, files, cancelled) ==
    IF cancelled THEN [ok |-> TRUE, grabber |-> g]
    ELSE IF ~files[g.path].exists THEN [ok |-> FALSE, grabber |-> g]
    ELSE [ok |-> TRUE,
          grabber |-> [g EXCEPT !.has_metadata = TRUE,
                                !.line_count = CountNL(files[g.path].data)]]

\* LineRange: the lines start..=end, counted from 0
LineRange(start, end) == [start |-> start, end |-> end]

\* a GrabbedElement: the text of a line, and the pos and row the caller tags it with
GrabbedElement(content, pos, row) == [content |-> content, pos |-> pos, row |-> row]

\* pos and row of an element the grabber returns
NotTagged == 0 - 1

\* grab_content: the lines of the range, when the index has them all
grab_content(g, files, range) ==
    IF \/ ~g.has_metadata \/ ~files[g.path].exists \/ range.end >= g.line_count
       \/ range.end >= Len(Lines(files[g.path].data))
    THEN [ok |-> FALSE, elements |-> <<>>]
    ELSE [ok |-> TRUE,
          elements |-> [k \in 1..(range.end - range.start + 1) |->
                           GrabbedElement(Lines(files[g.path].data)[range.start + k],
                                          NotTagged, NotTagged)]]

----------------------------------------------------------------------------
(* SearchMap: the match records and the stream length hint.                *)

SearchMap_new == [matches |-> <<>>, stream_len |-> 0]

\* append(&mut Vec): the matches move to the end of the map and leave the vector empty
SearchMap_append(map, matches) ==
    [map |-> [map EXCEPT !.matches = @ \o matches], rest |-> <<>>]

SearchMap_set(map, matches) ==
    [map EXCEPT !.matches = IF matches.some THEN matches.v ELSE <<>>]

set_stream_len(map, len) == [map EXCEPT !.stream_len = len]

\* the serialization sent to the UI: per match its line index and the filters as a set
map_as_str(matches) ==
    [n \in 1..Len(matches) |-> <<matches[n].index, Range(matches[n].filters)>>]

None == [some |-> FALSE, v |-> <<>>]
Some(v) == [some |-> TRUE, v |-> v]

----------------------------------------------------------------------------
(* SessionState and its handlers (session/src/state.rs).                   *)

NoPath == ""

NoHolder == SearchHolder_new(NoPath, <<>>)

\* SearchHolderState
Available(h) == [tag |-> "Available", holder |-> h]
InUse == [tag |-> "InUse", holder |-> NoHolder]
NotInited == [tag |-> "NotInited", holder |-> NoHolder]

NoWriter == [some |-> FALSE, buf |-> <<>>]

\* What a handler sends: callback events and the reply.
Ok(val) == [name |-> "Ok", val |-> val]
Err(kind) == [name |-> "Err", val |-> kind]
Unit == "()"

\* The values on the channels, each with the type its channel carries.
NoVal ==
    [type |-> "unit", bool |-> FALSE, num |-> 0, holder |-> NoHolder,
     matches |-> <<>>, some |-> FALSE, map |-> <<>>, err |-> "", grabbed |-> <<>>]
UnitVal == NoVal
BoolVal(b) == [NoVal EXCEPT !.type = "bool", !.bool = b]
NumVal(n) == [NoVal EXCEPT !.type = "num", !.num = n]
HolderVal(h) == [NoVal EXCEPT !.type = "holder", !.holder = h]
\* a SearchMap: its matches and its stream length
MapVal(m) == [NoVal EXCEPT !.type = "map", !.matches = m.matches, !.num = m.stream_len]
\* Option<String> of SearchMapUpdated
StrVal(opt) == [NoVal EXCEPT !.type = "str", !.some = opt.some, !.map = opt.v]
ErrVal(kind) == [NoVal EXCEPT !.type = "err", !.err = kind]
\* GrabbedContent: the grabbed elements
GrabbedVal(elements) == [NoVal EXCEPT !.type = "grabbed", !.grabbed = elements]

\* CallbackEvent: StreamUpdated(u64), SearchUpdated(u64), SearchMapUpdated(Option<String>),
\* FileRead
EventVal(name, val) ==
    IF name \in {"StreamUpdated", "SearchUpdated"} THEN NumVal(val)
    ELSE IF name = "SearchMapUpdated" THEN StrVal(val)
    ELSE UnitVal

\* The type of the one-shot channel of each command
ReplyVal(command, res) ==
    IF res.name = "Err" THEN ErrVal(res.val)
    ELSE IF command \in {"UpdateSession", "WriteSessionFile", "DropSearch"} THEN BoolVal(res.val)
    ELSE IF command \in {"GetSearchResultLen", "UpdateSearchResult", "GetStreamLen"}
    THEN NumVal(res.val)
    ELSE IF command = "GetSearchHolder" THEN HolderVal(res.val)
    ELSE IF command = "GetSearchMap" THEN MapVal(res.val)
    ELSE IF command \in {"GrabSearch", "Grab"} THEN GrabbedVal(res.val)
    ELSE UnitVal

Event(name, val) ==
    [kind |-> "event", name |-> name, val |-> EventVal(name, val), delivered |-> TRUE]
Reply(command, res, alive) ==
    [kind |-> "reply", name |-> res.name, val |-> ReplyVal(command, res), delivered |-> alive]

\* What a handler returns: the state and the files after it, the events it sent, its result.
Outcome(st, files, events, res) == [state |-> st, fs |-> files, events |-> events, res |-> res]

InitState ==
    [session_file |-> NoPath,
     session_writer |-> NoWriter,
     session_has_updates |-> FALSE,
     search_map |-> SearchMap_new,
     search_holder |-> NotInited,
     content_grabber |-> NoGrabber,
     search_grabber |-> NoGrabber,
     cancelling_operations |-> {},
     status |-> "Open"]

\* session_file is "ext" for SessionFile::Existed(path), "own" for SessionFile::ToBeCreated
handle_set_session_file(st, files, session_file) ==
    IF ~st.content_grabber.some
    THEN LET files1 == IF session_file = "own"
                       THEN [files EXCEPT ![session_file] = File(<<>>)]
                       ELSE files
         IN  Outcome([st EXCEPT !.session_file = session_file,
                                !.content_grabber = Grabber_lazy(session_file)],
                     files1, <<>>, Ok(Unit))
    ELSE Outcome(st, files, <<>>, Ok(Unit))

\* the arms of update_search_result after update_from_file
search_grabber_updated(st, files, grabber, upd) ==
    IF ~upd.ok
    THEN Outcome([st EXCEPT !.search_grabber = grabber], files, <<>>, Err("Grabber"))
    ELSE Outcome([st EXCEPT !.search_grabber = upd.grabber], files, <<>>,
                 IF upd.grabber.has_metadata THEN Ok(upd.grabber.line_count)
                 ELSE Err("Grabber"))

search_grabber_update(st, files, grabber, cancelled) ==
    search_grabber_updated(st, files, grabber, update_from_file(grabber, files, cancelled))

update_search_result(st, files, search_result_file, cancelled) ==
    IF ~files[search_result_file].exists THEN Outcome(st, files, <<>>, Ok(0))
    ELSE search_grabber_update(st, files,
                               IF st.search_grabber.some THEN st.search_grabber
                               ELSE Grabber_lazy(search_result_file),
                               cancelled)

\* Ok(found) of update_search_result: the matches are appended, then the two events
search_map_updated(u, app) ==
    IF u.res.name = "Ok"
    THEN Outcome([u.state EXCEPT !.search_map = app.map], u.fs,
                 <<Event("SearchUpdated", u.res.val),
                   Event("SearchMapUpdated", Some(map_as_str(app.rest)))>>,
                 Ok(TRUE))
    ELSE Outcome(u.state, u.fs, <<>>, Ok(TRUE))

search_result_updated(u, matches) ==
    search_map_updated(u, SearchMap_append(u.state.search_map, matches))

\* the two outer arms of the match on the result of SearchHolderState::execute_search
search_executed(st, cancelled, r) ==
    IF ~r.ok THEN Outcome(st, r.fs, <<>>, Ok(TRUE))
    ELSE search_result_updated(update_search_result(st, r.fs, r.path, cancelled), r.matches)

search_holder_back(st, cancelled, r) ==
    search_executed([st EXCEPT !.search_holder = Available(r.holder)], cancelled, r)

\* A handle_update_session that reports a search without matches when no holder is Available
search_in_update_reported(st, files, cancelled) ==
    IF st.search_holder.tag # "Available"
    THEN Outcome(st, files, <<Event("SearchUpdated", 0)>>, Ok(TRUE))
    ELSE search_holder_back(st, cancelled, execute_search(st.search_holder.holder, files))

\* SearchHolderState::execute_search: only an Available holder searches
search_in_update(st, files, cancelled) ==
    IF st.search_holder.tag # "Available" THEN Outcome(st, files, <<>>, Ok(TRUE))
    ELSE search_holder_back(st, cancelled, execute_search(st.search_holder.holder, files))

\* A handle_update_session that sends StreamUpdated after the events of the search
stream_updated_last(st, files, cancelled, current, srch) ==
    Outcome(srch.state, srch.fs, srch.events \o <<Event("StreamUpdated", current)>>, Ok(TRUE))

\* prev != current: StreamUpdated, then the search over the new content
stream_updated(st, files, cancelled, current, srch) ==
    Outcome(srch.state, srch.fs, <<Event("StreamUpdated", current)>> \o srch.events, Ok(TRUE))

\* A handle_update_session without the test prev != current
session_updated_always(st, files, cancelled, prev, upd) ==
    IF ~upd.ok THEN Outcome(st, files, <<>>, Err("Grabber"))
    ELSE stream_updated(st, files, cancelled, log_entry_count(upd.grabber),
                        search_in_update([st EXCEPT !.content_grabber = upd.grabber],
                                         files, cancelled))

session_updated(st, files, cancelled, prev, upd) ==
    IF ~upd.ok THEN Outcome(st, files, <<>>, Err("Grabber"))
    ELSE IF prev # log_entry_count(upd.grabber)
    THEN stream_updated(st, files, cancelled, log_entry_count(upd.grabber),
                        search_in_update([st EXCEPT !.content_grabber = upd.grabber],
                                         files, cancelled))
    ELSE Outcome([st EXCEPT !.content_grabber = upd.grabber], files, <<>>, Ok(FALSE))

\* A handle_update_session that reads prev after the rescan
handle_update_session_late_prev(st, files, cancelled) ==
    IF st.content_grabber.some
    THEN session_updated(st, files, cancelled,
                         log_entry_count(update_from_file(st.content_grabber, files,
                                                          cancelled).grabber),
                         update_from_file(st.content_grabber, files, cancelled))
    ELSE Outcome(st, files, <<>>, Err("Grabber"))

handle_update_session(st, files, cancelled) ==
    IF st.content_grabber.some
    THEN session_updated(st, files, cancelled, log_entry_count(st.content_grabber),
                         update_from_file(st.content_grabber, files, cancelled))
    ELSE Outcome(st, files, <<>>, Err("Grabber"))

\* A flush that empties the buffer without writing it
flush_lost(st, files) ==
    [state |-> [st EXCEPT !.session_writer.buf = <<>>], fs |-> files]

\* BufWriter::flush: the buffered bytes go to the end of the file
flush(st, files) ==
    [state |-> [st EXCEPT !.session_writer.buf = <<>>],
     fs |-> [files EXCEPT ![st.session_file].data = @ \o st.session_writer.buf]]

flushed_update(fl, cancelled) == handle_update_session(fl.state, fl.fs, cancelled)

\* A handle_write_session_file that leaves session_has_updates as it is
message_written_unmarked(st, files, cancelled, elapsed) ==
    IF elapsed THEN flushed_update(flush(st, files), cancelled)
    ELSE Outcome(st, files, <<>>, Ok(FALSE))

\* the message goes to the writer; elapsed: flush and handle_update_session
message_written(st, files, cancelled, elapsed) ==
    IF elapsed THEN flushed_update(flush(st, files), cancelled)
    ELSE Outcome([st EXCEPT !.session_has_updates = TRUE], files, <<>>, Ok(FALSE))

\* elapsed: last_message_timestamp.elapsed().as_millis() > NOTIFY_IN_MS
handle_write_session_file(st, files, cancelled, msg, elapsed) ==
    IF ~st.session_writer.some /\ st.session_file = NoPath
    THEN Outcome(st, files, <<>>, Err("Grabber"))
    ELSE message_written([st EXCEPT !.session_writer =
                                       [some |-> TRUE, buf |-> st.session_writer.buf \o msg]],
                         \* File::create(session_file) for the writer: created or truncated
                         IF st.session_writer.some THEN files
                         ELSE [files EXCEPT ![st.session_file] = File(<<>>)],
                         cancelled, elapsed)

flush_replied(u) ==
    Outcome(u.state, u.fs, u.events, IF u.res.name = "Ok" THEN Ok(Unit) ELSE u.res)

flushed_session(fl, cancelled) ==
    flush_replied(handle_update_session([fl.state EXCEPT !.session_has_updates = FALSE],
                                        fl.fs, cancelled))

\* A handle_flush_session_file without the test of session_has_updates
handle_flush_session_file_always(st, files, cancelled) ==
    IF ~st.session_writer.some /\ st.session_file = NoPath
    THEN Outcome(st, files, <<>>, Err("Grabber"))
    ELSE IF st.session_writer.some THEN flushed_session(flush(st, files), cancelled)
    ELSE flushed_session([state |-> st, fs |-> files], cancelled)

handle_flush_session_file(st, files, cancelled) ==
    IF ~st.session_writer.some /\ st.session_file = NoPath
    THEN Outcome(st, files, <<>>, Err("Grabber"))
    ELSE IF ~st.session_has_updates THEN Outcome(st, files, <<>>, Ok(Unit))
    ELSE IF st.session_writer.some THEN flushed_session(flush(st, files), cancelled)
    ELSE Outcome(st, files, <<>>, Ok(Unit))

\* A handle_get_search_holder that hands out a new holder while one is in use
handle_get_search_holder_taken(st, files) ==
    IF st.search_holder.tag = "Available"
    THEN Outcome([st EXCEPT !.search_holder = InUse], files, <<>>, Ok(st.search_holder.holder))
    ELSE IF st.session_file # NoPath
    THEN Outcome([st EXCEPT !.search_holder = InUse], files, <<>>,
                 Ok(SearchHolder_new(st.session_file, <<>>)))
    ELSE Outcome(st, files, <<>>, Err("Channel"))

\* A handle_get_search_holder that forgets the holder it stores
handle_get_search_holder_fresh(st, files) ==
    IF st.search_holder.tag = "InUse" THEN Outcome(st, files, <<>>, Err("Channel"))
    ELSE IF st.session_file # NoPath
    THEN Outcome([st EXCEPT !.search_holder = InUse], files, <<>>,
                 Ok(SearchHolder_new(st.session_file, <<>>)))
    ELSE Outcome(st, files, <<>>, Err("Channel"))

\* Ok carries the holder handed out.
handle_get_search_holder(st, files) ==
    IF st.search_holder.tag = "Available"
    THEN Outcome([st EXCEPT !.search_holder = InUse], files, <<>>, Ok(st.search_holder.holder))
    ELSE IF st.search_holder.tag = "InUse" THEN Outcome(st, files, <<>>, Err("Channel"))
    ELSE IF st.session_file # NoPath
    THEN Outcome([st EXCEPT !.search_holder = InUse], files, <<>>,
                 Ok(SearchHolder_new(st.session_file, <<>>)))
    ELSE Outcome(st, files, <<>>, Err("Channel"))

\* An Api::SetSearchHolder without the test for InUse
handle_set_search_holder_any(st, files, search_holder) ==
    Outcome([st EXCEPT !.search_holder =
                          IF search_holder.some THEN Available(search_holder.v)
                          ELSE NotInited],
            files, <<>>, Ok(Unit))

\* Api::SetSearchHolder: a holder that is not taken is dropped with the message
handle_set_search_holder(st, files, search_holder) ==
    IF st.search_holder.tag = "InUse"
    THEN Outcome([st EXCEPT !.search_holder =
                               IF search_holder.some THEN Available(search_holder.v)
                               ELSE NotInited],
                 files, <<>>, Ok(Unit))
    ELSE Outcome(st, IF search_holder.some THEN drop_holder(search_holder.v, files) ELSE files,
                 <<>>, Err("Channel"))

\* An Api::DropSearch without the test for InUse
handle_drop_search_forced(st, files) ==
    Outcome([st EXCEPT !.search_grabber = NoGrabber,
                       !.search_holder = NotInited,
                       !.search_map = SearchMap_set(st.search_map, None)],
            IF st.search_holder.tag = "Available"
            THEN drop_holder(st.search_holder.holder, files) ELSE files,
            <<Event("SearchUpdated", 0), Event("SearchMapUpdated", None)>>,
            Ok(TRUE))

\* An Api::DropSearch that sends its two events the other way round
handle_drop_search_swapped(st, files) ==
    IF st.search_holder.tag = "InUse" THEN Outcome(st, files, <<>>, Ok(FALSE))
    ELSE Outcome([st EXCEPT !.search_grabber = NoGrabber,
                            !.search_holder = NotInited,
                            !.search_map = SearchMap_set(st.search_map, None)],
                 IF st.search_holder.tag = "Available"
                 THEN drop_holder(st.search_holder.holder, files) ELSE files,
                 <<Event("SearchMapUpdated", None), Event("SearchUpdated", 0)>>,
                 Ok(TRUE))

\* Api::DropSearch: replacing an Available holder drops it
handle_drop_search(st, files) ==
    IF st.search_holder.tag = "InUse" THEN Outcome(st, files, <<>>, Ok(FALSE))
    ELSE Outcome([st EXCEPT !.search_grabber = NoGrabber,
                            !.search_holder = NotInited,
                            !.search_map = SearchMap_set(st.search_map, None)],
                 IF st.search_holder.tag = "Available"
                 THEN drop_holder(st.search_holder.holder, files) ELSE files,
                 <<Event("SearchUpdated", 0), Event("SearchMapUpdated", None)>>,
                 Ok(TRUE))

\* An Api::SetMatches that adds the matches to those the map holds
handle_set_matches_appended(st, files, matches) ==
    Outcome([st EXCEPT !.search_map.matches =
                          @ \o (IF matches.some THEN matches.v ELSE <<>>)],
            files,
            <<Event("SearchMapUpdated",
                    IF matches.some THEN Some(map_as_str(matches.v)) ELSE None)>>,
            Ok(Unit))

\* Api::SetMatches
handle_set_matches(st, files, matches) ==
    Outcome([st EXCEPT !.search_map = SearchMap_set(st.search_map, matches)], files,
            <<Event("SearchMapUpdated",
                    IF matches.some THEN Some(map_as_str(matches.v)) ELSE None)>>,
            Ok(Unit))

\* An Api::UpdateSearchResult that does not look at cancelling_operations
handle_update_search_result_unflagged(st, files, cancelled, uuid, search_result_file) ==
    update_search_result(st, files, search_result_file, cancelled)

\* Api::UpdateSearchResult
handle_update_search_result(st, files, cancelled, uuid, search_result_file) ==
    IF uuid \in st.cancelling_operations THEN Outcome(st, files, <<>>, Ok(0))
    ELSE update_search_result(st, files, search_result_file, cancelled)

\* Api::GetSearchResultLen
\* el.content.parse::<u64>() succeeds
parses(content) ==
    content # <<>> /\ \A k \in 1..Len(content) : content[k] \in {Digit(d) : d \in 0..9}

\* the loop over the grabbed line numbers, from element i on
RECURSIVE grab_ranges_loop(_, _, _, _, _)
grab_ranges_loop(nums, i, ranges, from_pos, to_pos) ==
    IF i > Len(nums) THEN [ranges |-> ranges, from_pos |-> from_pos, to_pos |-> to_pos]
    ELSE IF i = 1 THEN grab_ranges_loop(nums, 2, ranges, nums[1], nums[1])
    ELSE IF to_pos + 1 # nums[i]
    THEN grab_ranges_loop(nums, i + 1, Append(ranges, <<from_pos, to_pos>>), nums[i], nums[i])
    ELSE grab_ranges_loop(nums, i + 1, ranges, from_pos, nums[i])

\* A handle_grab_search that pushes the last range whenever there are elements
grab_ranges_closed_always(nums, l) ==
    IF nums # <<>> THEN Append(l.ranges, <<l.from_pos, l.to_pos>>) ELSE l.ranges

\* the push of the last range after the loop
grab_ranges_closed(nums, l) ==
    IF \/ l.ranges # <<>> /\ l.ranges[Len(l.ranges)][1] # l.from_pos
       \/ l.ranges = <<>> /\ nums # <<>>
    THEN Append(l.ranges, <<l.from_pos, l.to_pos>>)
    ELSE l.ranges

\* the inclusive ranges <<from_pos, to_pos>> grabbed from the content grabber
grab_ranges(nums) == grab_ranges_closed(nums, grab_ranges_loop(nums, 1, <<>>, 0, 0))

\* the elements of one range, tagged with pos = start + j
session_grabbed(grabbed, start) ==
    [j \in 1..Len(grabbed.elements) |-> [grabbed.elements[j] EXCEPT !.pos = start + j - 1]]

\* the elements of all the ranges, with row counted up from the start of the range asked for
search_grabbed(parts, row) ==
    [k \in 1..Len(Flatten(parts)) |-> [Flatten(parts)[k] EXCEPT !.row = row + k - 1]]

\* the grabs of the ranges on the content grabber: the first that fails ends the command
content_grabbed(st, files, range, grabs, ranges) ==
    IF \E r \in 1..Len(ranges) : ~grabs[r].ok THEN Outcome(st, files, <<>>, Err("Grabber"))
    ELSE Outcome(st, files, <<>>,
                 Ok(search_grabbed([r \in 1..Len(ranges) |-> session_grabbed(grabs[r], ranges[r][1])],
                                   range.start)))

ranges_grabbed(st, files, range, ranges) ==
    IF ~st.content_grabber.some THEN Outcome(st, files, <<>>, Err("Grabber"))
    ELSE content_grabbed(st, files, range,
                         [r \in 1..Len(ranges) |->
                             grab_content(st.content_grabber, files,
                                          LineRange(ranges[r][1], ranges[r][2]))],
                         ranges)

line_numbers_grabbed(st, files, range, line_numbers) ==
    IF ~line_numbers.ok THEN Outcome(st, files, <<>>, Err("Grabber"))
    ELSE IF \E k \in 1..Len(line_numbers.elements) : ~parses(line_numbers.elements[k].content)
    THEN Outcome(st, files, <<>>, Err("OperationSearch"))
    ELSE ranges_grabbed(st, files, range,
                        grab_ranges([k \in 1..Len(line_numbers.elements) |->
                                        FromDecimal(line_numbers.elements[k].content)]))

handle_grab_search(st, files, range) ==
    IF ~st.search_grabber.some THEN Outcome(st, files, <<>>, Err("Grabber"))
    ELSE line_numbers_grabbed(st, files, range, grab_content(st.search_grabber, files, range))

handle_get_search_result_len(st, files) ==
    Outcome(st, files, <<>>,
            Ok(IF st.search_grabber.some /\ st.search_grabber.has_metadata
               THEN st.search_grabber.line_count ELSE 0))

\* An Api::Grab that answers with no lines when there is no content grabber
handle_grab_empty(st, files, range) ==
    IF ~st.content_grabber.some THEN Outcome(st, files, <<>>, Ok(<<>>))
    ELSE IF ~grab_content(st.content_grabber, files, range).ok
    THEN Outcome(st, files, <<>>, Err("Grabber"))
    ELSE Outcome(st, files, <<>>, Ok(grab_content(st.content_grabber, files, range).elements))

\* Api::Grab: the lines of the range from the content grabber
handle_grab(st, files, range) ==
    IF ~st.content_grabber.some THEN Outcome(st, files, <<>>, Err("Grabber"))
    ELSE IF ~grab_content(st.content_grabber, files, range).ok
    THEN Outcome(st, files, <<>>, Err("Grabber"))
    ELSE Outcome(st, files, <<>>, Ok(grab_content(st.content_grabber, files, range).elements))

\* Api::GetStreamLen: the line count of the content grabber's metadata
handle_get_stream_len(st, files) ==
    IF ~st.content_grabber.some THEN Outcome(st, files, <<>>, Err("Grabber"))
    ELSE IF ~st.content_grabber.has_metadata THEN Outcome(st, files, <<>>, Err("Grabber"))
    ELSE Outcome(st, files, <<>>, Ok(st.content_grabber.line_count))

\* The state once run() has returned and dropped it
Dropped == InitState

\* What dropping the state does to the files when run() returns: the writer
\* flushes its buffer, an Available holder removes its result file.
drop_state(st, files) ==
    LET files1 == IF st.session_writer.some /\ files[st.session_file].exists
                  THEN flush(st, files).fs ELSE files
    IN  IF st.search_holder.tag = "Available"
        THEN drop_holder(st.search_holder.holder, files1) ELSE files1

\* The code after the loop of run(): the session file is removed if a writer exists
cleanup(st, files) ==
    IF st.session_writer.some /\ st.session_file # NoPath /\ files[st.session_file].exists
    THEN remove_file(files, st.session_file) ELSE files

----------------------------------------------------------------------------
(* The inputs of the commands.                                             *)

FilterA == SearchFilter(<<"a">>, FALSE, FALSE, FALSE)
FilterB == SearchFilter(<<"B">>, TRUE, TRUE, TRUE)

\* The filter lists a search task gives its holder.
FilterChoices == {<<FilterA, FilterB>>}

\* Filters that are no regular expressions: a group that is not closed, and two
\* that only together have their brackets in pairs.
FilterUnclosed == SearchFilter(<<"(">>, TRUE, FALSE, FALSE)
FilterCloses == SearchFilter(<<"a", ")">>, TRUE, FALSE, FALSE)
FilterOpens == SearchFilter(<<"(", "b">>, TRUE, FALSE, FALSE)

\* A regular expression that turns the case off and leaves it off, and a literal in
\* upper case behind it.
FilterCaseOn == SearchFilter(<<"(", "?", "i", ")", "a">>, TRUE, FALSE, FALSE)
FilterUpper == SearchFilter(<<"B">>, FALSE, FALSE, FALSE)
ClassifyFilterChoices == FilterChoices \cup {<<FilterCaseOn, FilterUpper>>}

\* A filter list with one filter more than the index type has values.
ManyFilters == [k \in 1..(MaxIndexValues + 1) |-> FilterA]

\* The filter lists execute_search refuses: none, and lists with such filters.
FailingFilterChoices == {<<>>, <<FilterA, FilterUnclosed>>, <<FilterCloses, FilterOpens>>}

\* The values SetMatches is called with.
MatchesChoices == {None, Some(<<FilterMatch(0, <<0>>)>>)}

\* The characters of the filter values whose patterns are built on their own: every
\* character escape() knows, a letter, and the letters and the dash of the markers.
PatternChars == EscapedChars \cup {"a", "b", "i", "-"}

\* The characters of the values of more than one character.
SeveralChars == {"a", ".", ",", "\\"}

PatternFilters ==
    {SearchFilter(v, r, c, w) :
        v \in {<<ch>> : ch \in PatternChars}
                  \cup UNION {[1..n -> SeveralChars] : n \in 0..MaxValueLen},
        r \in BOOLEAN, c \in BOOLEAN, w \in BOOLEAN}

\* The session file GrabSearch reads lines from: four lines, each with a text of its own.
GrabSessionContent == <<"a", NL, "b", NL, "a", "b", NL, "b", "a", NL>>

\* The result files on disk when GrabSearch is followed: every list of line numbers up
\* to the bounds, one decimal number per line, and two files with a line that is no number.
ResultContents ==
    {DecimalLines(l) : l \in UNION {[1..n -> 0..MaxGrabLine] : n \in 0..MaxGrabLen}}
        \cup {<<"x", NL>>, <<"0", NL, "x", NL>>}

\* The ranges GrabSearch is called with.
GrabRanges ==
    {LineRange(r[1], r[2]) :
        r \in {x \in (0..(MaxGrabLen - 1)) \X (0..(MaxGrabLen - 1)) : x[1] <= x[2]}}

\* The paths UpdateSearchResult is called with: the result file of the session
\* file, or a path that names no file.
ResultPaths(st) ==
    (IF st.session_file # NoPath THEN {OutPath(st.session_file)} ELSE {}) \cup {OtherPath}

----------------------------------------------------------------------------
(* The actor: run() takes one command from the queue per step.             *)

\* What the search part of the session was when the last command arrived: the holder
\* state, and whether a result file, a search grabber and matches in the map existed.
Snapshot ==
    [holder |-> state.search_holder.tag,
     result_file |-> state.session_file # NoPath /\ fs[OutPath(state.session_file)].exists,
     search_grabber |-> state.search_grabber.some,
     matches |-> state.search_map.matches # <<>>]

\* The callers that run exec_operation, each with one command at a time.
Callers == 1..MaxCallers

\* shutdown() has no reply channel
NoCaller == 0

\* An Api message in the channel: the command, its argument, and the caller that holds
\* the receiver of its reply channel.
Api(name, arg, caller) == [name |-> name, arg |-> arg, caller |-> caller]

\* The channel is open and empty, and no caller has sent a command.  The commands that
\* are sent while others wait are in rx_api.queue; a command the actions below take
\* without a queue is one the actor receives as soon as it is sent.
NothingSent ==
    /\ rx_api = [dropped |-> FALSE, queue |-> <<>>]
    /\ callers = [c \in Callers |-> "idle"]

Init ==
    /\ state = InitState
    /\ state_cancellation_token = FALSE
    /\ running = TRUE
    /\ \E data \in ExistedContents :
           fs = [p \in Paths |-> IF p = "ext" THEN File(data) ELSE NoFile]
    /\ holders = <<>>
    /\ cmd = "None"
    /\ before = Snapshot
    /\ trace = <<>>
    /\ written = <<>>
    /\ NothingSent

\* written is the sequence of the messages the running actor took with WriteSessionFile;
\* a command that is not a write leaves it, and it ends with the actor.
Kept(alive) == written' = IF alive THEN written ELSE <<>>

\* A run() that answers before it sends the events
Replied_first(name, out, alive) ==
    /\ cmd' = name
    /\ before' = Snapshot
    /\ trace' = <<Reply(name, out.res, alive)>> \o out.events
    /\ state' = IF alive THEN out.state ELSE Dropped
    /\ running' = alive
    /\ fs' = IF alive THEN out.fs ELSE drop_state(out.state, out.fs)
    /\ UNCHANGED <<rx_api, callers>>

\* A command with a reply channel was handled with outcome out; alive says whether
\* the caller still holds the receiver.  A reply that cannot be sent makes run()
\* return the error, and the state is dropped.
Replied(name, out, alive) ==
    /\ cmd' = name
    /\ before' = Snapshot
    /\ trace' = out.events \o <<Reply(name, out.res, alive)>>
    /\ state' = IF alive THEN out.state ELSE Dropped
    /\ running' = alive
    /\ fs' = IF alive THEN out.fs ELSE drop_state(out.state, out.fs)
    /\ UNCHANGED <<rx_api, callers>>

\* A notification was handled: nothing is sent.
Notified(name, st) ==
    /\ cmd' = name
    /\ before' = Snapshot
    /\ trace' = <<>>
    /\ state' = st
    /\ UNCHANGED <<running, fs, written, rx_api, callers>>

SetSessionFile(session_file, alive) ==
    /\ running
    /\ Replied("SetSessionFile",
               handle_set_session_file(state, fs, session_file), alive)
    /\ UNCHANGED <<state_cancellation_token, holders>>
    /\ Kept(alive)

\* limit bounds the bytes the session file and the writer's buffer hold after the write
WriteSessionFileUpTo(limit, msg, elapsed, alive) ==
    /\ running
    /\ state.session_file # NoPath =>
           (IF state.session_writer.some THEN Len(fs[state.session_file].data) ELSE 0)
               + Len(state.session_writer.buf) + Len(msg) <= limit
    /\ Replied("WriteSessionFile",
               handle_write_session_file(state, fs, state_cancellation_token, msg, elapsed),
               alive)
    /\ UNCHANGED <<state_cancellation_token, holders>>
    /\ written' = IF ~alive THEN <<>>
                  ELSE IF state.session_file = NoPath THEN written
                  ELSE Append(written, msg)

WriteSessionFile(msg, elapsed, alive) == WriteSessionFileUpTo(MaxBytes, msg, elapsed, alive)

FlushSessionFile(alive) ==
    /\ running
    /\ Replied("FlushSessionFile",
               handle_flush_session_file(state, fs, state_cancellation_token), alive)
    /\ UNCHANGED <<state_cancellation_token, holders>>
    /\ Kept(alive)

UpdateSession(alive) ==
    /\ running
    /\ Replied("UpdateSession",
               handle_update_session(state, fs, state_cancellation_token), alive)
    /\ UNCHANGED <<state_cancellation_token, holders>>
    /\ Kept(alive)

FileRead(alive) ==
    /\ running
    /\ Replied("FileRead", Outcome(state, fs, <<Event("FileRead", Unit)>>, Ok(Unit)), alive)
    /\ UNCHANGED <<state_cancellation_token, holders>>
    /\ Kept(alive)

SetStreamLen(len, alive) ==
    /\ running
    /\ Replied("SetStreamLen",
               Outcome([state EXCEPT !.search_map = set_stream_len(@, len)], fs, <<>>, Ok(Unit)),
               alive)
    /\ UNCHANGED <<state_cancellation_token, holders>>
    /\ Kept(alive)

GetSearchResultLen(alive) ==
    /\ running
    /\ Replied("GetSearchResultLen", handle_get_search_result_len(state, fs), alive)
    /\ UNCHANGED <<state_cancellation_token, holders>>
    /\ Kept(alive)

GetSearchMap(alive) ==
    /\ running
    /\ Replied("GetSearchMap", Outcome(state, fs, <<>>, Ok(state.search_map)), alive)
    /\ UNCHANGED <<state_cancellation_token, holders>>
    /\ Kept(alive)

GrabSearch(range, alive) ==
    /\ running
    /\ Replied("GrabSearch", handle_grab_search(state, fs, range), alive)
    /\ UNCHANGED <<state_cancellation_token, holders>>
    /\ Kept(alive)

Grab(range, alive) ==
    /\ running
    /\ Replied("Grab", handle_grab(state, fs, range), alive)
    /\ UNCHANGED <<state_cancellation_token, holders>>
    /\ Kept(alive)

GetStreamLen(alive) ==
    /\ running
    /\ Replied("GetStreamLen", handle_get_stream_len(state, fs), alive)
    /\ UNCHANGED <<state_cancellation_token, holders>>
    /\ Kept(alive)

UpdateSearchResult(uuid, path, alive) ==
    /\ running
    /\ path \in ResultPaths(state)
    /\ Replied("UpdateSearchResult",
               handle_update_search_result(state, fs, state_cancellation_token, uuid, path),
               alive)
    /\ UNCHANGED <<state_cancellation_token, holders>>
    /\ Kept(alive)

\* A holder that is handed out goes to the search task that asked for it; when the
\* reply cannot be sent the holder is dropped with it.
GetSearchHolder(alive) ==
    LET out == handle_get_search_holder(state, fs)
        lost == out.res.name = "Ok" /\ ~alive
    IN  /\ running
        /\ Len(holders) < MaxHolders
        /\ Replied("GetSearchHolder",
                   [out EXCEPT !.fs = IF lost THEN drop_holder(out.res.val, @) ELSE @], alive)
        /\ holders' = IF out.res.name = "Ok" /\ alive THEN Append(holders, out.res.val)
                      ELSE holders
        /\ UNCHANGED state_cancellation_token
        /\ Kept(alive)

\* SetSearchHolder(Some(holder), uuid): the search task gives back holder number i.
\* The uuid is only logged (_uuid_for_debug).
ReturnSearchHolder(i, alive) ==
    /\ running
    /\ i \in 1..Len(holders)
    /\ Replied("SetSearchHolder",
               handle_set_search_holder(state, fs, Some(holders[i])), alive)
    /\ holders' = [k \in 1..(Len(holders) - 1) |-> IF k < i THEN holders[k] ELSE holders[k + 1]]
    /\ UNCHANGED state_cancellation_token
    /\ Kept(alive)

\* SetSearchHolder(None): sent by callers that hold no holder (any more).
ResetSearchHolder(alive) ==
    /\ running
    /\ holders = <<>>
    /\ Replied("SetSearchHolder",
               handle_set_search_holder(state, fs, [some |-> FALSE, v |-> NoHolder]), alive)
    /\ UNCHANGED <<state_cancellation_token, holders>>
    /\ Kept(alive)

DropSearch(alive) ==
    /\ running
    /\ Replied("DropSearch", handle_drop_search(state, fs), alive)
    /\ UNCHANGED <<state_cancellation_token, holders>>
    /\ Kept(alive)

SetMatches(matches, alive) ==
    /\ running
    /\ Replied("SetMatches", handle_set_matches(state, fs, matches), alive)
    /\ UNCHANGED <<state_cancellation_token, holders>>
    /\ Kept(alive)

CloseSession(alive) ==
    /\ running
    /\ Replied("CloseSession",
               Outcome([state EXCEPT !.status = "Closed"], fs, <<>>, Ok(Unit)), alive)
    /\ state_cancellation_token' = TRUE
    /\ UNCHANGED holders
    /\ Kept(alive)

NotifyCancelingOperation(uuid) ==
    /\ running
    /\ Notified("NotifyCancelingOperation",
                [state EXCEPT !.cancelling_operations = @ \cup {uuid}])
    /\ UNCHANGED <<state_cancellation_token, holders>>

NotifyCanceledOperation(uuid) ==
    /\ running
    /\ Notified("NotifyCanceledOperation",
                [state EXCEPT !.cancelling_operations = @ \ {uuid}])
    /\ UNCHANGED <<state_cancellation_token, holders>>

Shutdown ==
    /\ running
    /\ cmd' = "Shutdown"
    /\ before' = Snapshot
    /\ trace' = <<>>
    /\ state_cancellation_token' = TRUE
    /\ running' = FALSE
    /\ state' = Dropped
    /\ fs' = drop_state(state, cleanup(state, fs))
    /\ written' = <<>>
    /\ UNCHANGED <<holders, rx_api, callers>>

----------------------------------------------------------------------------
(* The channel: callers send, run() receives, the end of run() drops the   *)
(* receiver.                                                               *)

\* The commands the callers send through exec_operation.
SentCommands ==
    {<<"SetSessionFile", p>> : p \in SessionPaths}
        \cup {<<"UpdateSession", Unit>>, <<"GetStreamLen", Unit>>, <<"FileRead", Unit>>}

\* exec_operation: the command goes into the channel and the caller awaits the reply;
\* the send fails when the receiver is dropped.
exec_operation(c, name, arg) ==
    /\ callers[c] # "waiting"
    /\ IF rx_api.dropped
       THEN /\ callers' = [callers EXCEPT ![c] = "send_failed"]
            /\ UNCHANGED rx_api
       ELSE /\ Len(rx_api.queue) < MaxQueue
            /\ rx_api' = [rx_api EXCEPT !.queue = Append(@, Api(name, arg, c))]
            /\ callers' = [callers EXCEPT ![c] = "waiting"]
    /\ UNCHANGED <<state, state_cancellation_token, running, fs, holders, cmd, trace,
                   before, written>>

\* SessionStateAPI::shutdown: Api::Shutdown goes into the channel, nobody awaits a reply
shutdown ==
    /\ ~rx_api.dropped
    /\ Len(rx_api.queue) < MaxQueue
    /\ rx_api' = [rx_api EXCEPT !.queue = Append(@, Api("Shutdown", Unit, NoCaller))]
    /\ UNCHANGED <<state, state_cancellation_token, running, fs, holders, cmd, trace,
                   before, written, callers>>

\* the arm of run() for the command api
handled(api) ==
    IF api.name = "SetSessionFile" THEN handle_set_session_file(state, fs, api.arg)
    ELSE IF api.name = "UpdateSession"
    THEN handle_update_session(state, fs, state_cancellation_token)
    ELSE IF api.name = "GetStreamLen" THEN handle_get_stream_len(state, fs)
    ELSE Outcome(state, fs, <<Event("FileRead", Unit)>>, Ok(Unit))

\* run() receives the next command, handles it and answers its caller
Recv ==
    /\ running
    /\ rx_api.queue # <<>>
    /\ Head(rx_api.queue).name # "Shutdown"
    /\ rx_api' = [rx_api EXCEPT !.queue = Tail(@)]
    /\ cmd' = Head(rx_api.queue).name
    /\ before' = Snapshot
    /\ trace' = handled(Head(rx_api.queue)).events
                    \o <<Reply(Head(rx_api.queue).name, handled(Head(rx_api.queue)).res, TRUE)>>
    /\ state' = handled(Head(rx_api.queue)).state
    /\ fs' = handled(Head(rx_api.queue)).fs
    /\ callers' = [callers EXCEPT ![Head(rx_api.queue).caller] = "answered"]
    /\ UNCHANGED <<state_cancellation_token, running, holders, written>>

\* A run() that cancels the token on Api::Shutdown and stays in its loop
RecvShutdown_continue ==
    /\ running
    /\ rx_api.queue # <<>>
    /\ Head(rx_api.queue).name = "Shutdown"
    /\ rx_api' = [rx_api EXCEPT !.queue = Tail(@)]
    /\ cmd' = "Shutdown"
    /\ before' = Snapshot
    /\ trace' = <<>>
    /\ state_cancellation_token' = TRUE
    /\ UNCHANGED <<state, running, fs, holders, written, callers>>

\* run() receives Api::Shutdown: it cancels the token and leaves the loop; the cleanup
\* follows and the state is dropped.  The receiver, a parameter of run(), is dropped
\* after the locals.
RecvShutdown ==
    /\ running
    /\ rx_api.queue # <<>>
    /\ Head(rx_api.queue).name = "Shutdown"
    /\ rx_api' = [rx_api EXCEPT !.queue = Tail(@)]
    /\ cmd' = "Shutdown"
    /\ before' = Snapshot
    /\ trace' = <<>>
    /\ state_cancellation_token' = TRUE
    /\ running' = FALSE
    /\ state' = Dropped
    /\ fs' = drop_state(state, cleanup(state, fs))
    /\ written' = <<>>
    /\ UNCHANGED <<holders, callers>>

\* c has a command in the channel
Queued(c) == \E k \in 1..Len(rx_api.queue) : rx_api.queue[k].caller = c

\* run() has returned: the receiver is dropped with the commands still in the channel,
\* and with each of them the sender of its reply channel, so that the caller's
\* rx_response.await fails.
DropReceiver ==
    /\ ~running
    /\ ~rx_api.dropped
    /\ rx_api' = [dropped |-> TRUE, queue |-> <<>>]
    /\ callers' = [c \in Callers |-> IF Queued(c) THEN "no_response" ELSE callers[c]]
    /\ UNCHANGED <<state, state_cancellation_token, running, fs, holders, cmd, trace,
                   before, written>>

\* The callers, the channel and the actor.
NextQueue ==
    \/ \E c \in Callers, s \in SentCommands : exec_operation(c, s[1], s[2])
    \/ shutdown
    \/ Recv
    \/ RecvShutdown
    \/ DropReceiver

SpecQueue == Init /\ [][NextQueue]_vars

\* run() is a task of the runtime: once it has left the loop it runs to its end
FairSpecQueue == SpecQueue /\ WF_vars(DropReceiver)

----------------------------------------------------------------------------
(* The search tasks: what the holder's taker does with it outside the actor. *)

TaskStep(name, i) ==
    /\ cmd' = name
    /\ before' = Snapshot
    /\ trace' = <<>>
    /\ UNCHANGED <<state, state_cancellation_token, running, written, rx_api, callers>>

TaskSetFilters(i, filters) ==
    /\ i \in 1..Len(holders)
    /\ holders' = [holders EXCEPT ![i] = set_filters(@, filters)]
    /\ TaskStep("set_filters", i)
    /\ UNCHANGED fs

TaskExecuteSearch(i) ==
    /\ i \in 1..Len(holders)
    /\ holders[i].bytes_read < MaxCursor
    /\ LET r == execute_search(holders[i], fs)
       IN  /\ holders' = [holders EXCEPT ![i] = r.holder]
           /\ fs' = r.fs
    /\ TaskStep("execute_search", i)

TaskDropHolder(i) ==
    /\ i \in 1..Len(holders)
    /\ holders' = [k \in 1..(Len(holders) - 1) |-> IF k < i THEN holders[k] ELSE holders[k + 1]]
    /\ fs' = drop_holder(holders[i], fs)
    /\ TaskStep("drop", i)

\* The pattern execute_search builds of filter k of the holder, for the matcher of its own
TaskFilterAsRegex(i, k) ==
    /\ i \in 1..Len(holders)
    /\ k \in 1..Len(holders[i].search_filters)
    /\ cmd' = "filter_as_regex"
    /\ before' = Snapshot
    /\ trace' = <<[kind |-> "pattern", name |-> "filter_as_regex",
                   val |-> StrVal(Some(filter_as_regex(holders[i].search_filters[k]))),
                   delivered |-> TRUE]>>
    /\ UNCHANGED <<state, state_cancellation_token, running, written, holders, fs,
                   rx_api, callers>>

\* A search of a task that is cancelled while it scans
TaskExecuteSearchCancelled(i, kept, back) ==
    /\ i \in 1..Len(holders)
    /\ holders[i].bytes_read < MaxCursor
    /\ execute_search(holders[i], fs).ok
    /\ kept \in 1..Len(matches_ahead(holders[i], fs))
    /\ holders' = [holders EXCEPT ![i] = execute_search_cancelled(@, fs, kept, back).holder]
    /\ fs' = execute_search_cancelled(holders[i], fs, kept, back).fs
    /\ TaskStep("execute_search_cancelled", i)

\* The commands on the session file.
FileCommands ==
    \/ \E p \in SessionPaths, alive \in BOOLEAN : SetSessionFile(p, alive)
    \/ \E msg \in Msgs, elapsed \in BOOLEAN, alive \in BOOLEAN : WriteSessionFile(msg, elapsed, alive)
    \/ \E alive \in BOOLEAN : FlushSessionFile(alive)
    \/ \E alive \in BOOLEAN : UpdateSession(alive)
    \/ \E alive \in BOOLEAN : FileRead(alive)

\* The commands on the search holder.
HolderCommands ==
    \/ \E alive \in BOOLEAN : GetSearchHolder(alive)
    \/ \E i \in 1..MaxHolders, alive \in BOOLEAN : ReturnSearchHolder(i, alive)
    \/ \E alive \in BOOLEAN : ResetSearchHolder(alive)
    \/ \E alive \in BOOLEAN : DropSearch(alive)

\* The commands on the search results.
ResultCommands ==
    \/ \E alive \in BOOLEAN : GetSearchResultLen(alive)
    \/ \E u \in UUIDS, p \in Paths, alive \in BOOLEAN : UpdateSearchResult(u, p, alive)

\* The steps of the search tasks.
TaskSteps ==
    \/ \E i \in 1..MaxHolders, f \in FilterChoices : TaskSetFilters(i, f)
    \/ \E i \in 1..MaxHolders : TaskExecuteSearch(i)
    \/ \E i \in 1..MaxHolders : TaskDropHolder(i)

\* The commands on the search map.
MapCommands ==
    \/ \E len \in 0..MaxStreamLen, alive \in BOOLEAN : SetStreamLen(len, alive)
    \/ \E alive \in BOOLEAN : GetSearchMap(alive)
    \/ \E m \in MatchesChoices, alive \in BOOLEAN : SetMatches(m, alive)

\* The notifications of the operation tracker.
CancelCommands ==
    \/ \E u \in UUIDS : NotifyCancelingOperation(u)
    \/ \E u \in UUIDS : NotifyCanceledOperation(u)

Next ==
    \/ FileCommands
    \/ HolderCommands
    \/ ResultCommands
    \/ TaskSteps
    \/ MapCommands
    \/ CancelCommands
    \/ \E r \in GrabRanges, alive \in BOOLEAN : GrabSearch(r, alive)
    \/ \E r \in GrabRanges, alive \in BOOLEAN : Grab(r, alive)
    \/ \E alive \in BOOLEAN : GetStreamLen(alive)
    \/ \E alive \in BOOLEAN : CloseSession(alive)
    \/ Shutdown

\* The actor with every command.
Spec == Init /\ [][Next]_vars

\* The actor and the search tasks, without the tracker's notifications and CloseSession.
NextSearch ==
    \/ FileCommands
    \/ HolderCommands
    \/ ResultCommands
    \/ TaskSteps
    \/ MapCommands
    \/ Shutdown

SpecSearch == Init /\ [][NextSearch]_vars

\* The actor with the commands a holder that is taken has to survive.
NextFrame ==
    \/ FileCommands
    \/ HolderCommands
    \/ ResultCommands
    \/ MapCommands
    \/ CancelCommands
    \/ \E alive \in BOOLEAN : CloseSession(alive)

SpecFrame == Init /\ [][NextFrame]_vars

\* The actor, the search tasks and the tracker's notifications; the state token is
\* not cancelled while the actor runs.
NextCancel ==
    \/ FileCommands
    \/ HolderCommands
    \/ ResultCommands
    \/ TaskSteps
    \/ CancelCommands

SpecCancel == Init /\ [][NextCancel]_vars

\* The actor with the commands on the session file, and Shutdown.
NextFile ==
    \/ FileCommands
    \/ Shutdown

SpecFile == Init /\ [][NextFile]_vars

\* The actor with the commands that bring matches into the search map by searches
\* alone, over a session file of several lines, and the search tasks.
NextMap ==
    \/ \E p \in SessionPaths, alive \in BOOLEAN : SetSessionFile(p, alive)
    \/ \E msg \in Msgs, elapsed \in BOOLEAN, alive \in BOOLEAN :
           WriteSessionFileUpTo(MaxMapBytes, msg, elapsed, alive)
    \/ \E alive \in BOOLEAN : FlushSessionFile(alive)
    \/ \E alive \in BOOLEAN : UpdateSession(alive)
    \/ HolderCommands
    \/ TaskSteps

SpecMap == Init /\ [][NextMap]_vars

\* The same with searches of the tasks that are cancelled while they scan.
NextStop ==
    \/ NextMap
    \/ \E i \in 1..MaxHolders, kept \in 1..MaxMapBytes, back \in 0..1 :
           TaskExecuteSearchCancelled(i, kept, back)

SpecStop == Init /\ [][NextStop]_vars

\* The actor with the session file and the holder, and search tasks that also set
\* filter lists execute_search refuses.
NextFilters ==
    \/ \E p \in SessionPaths, alive \in BOOLEAN : SetSessionFile(p, alive)
    \/ \E msg \in Msgs, elapsed \in BOOLEAN, alive \in BOOLEAN : WriteSessionFile(msg, elapsed, alive)
    \/ HolderCommands
    \/ \E i \in 1..MaxHolders, f \in FilterChoices \cup FailingFilterChoices : TaskSetFilters(i, f)
    \/ \E i \in 1..MaxHolders : TaskExecuteSearch(i)
    \/ \E i \in 1..MaxHolders : TaskDropHolder(i)

SpecFilters == Init /\ [][NextFilters]_vars

\* The actor with the session file and the holder, and search tasks with filters whose
\* flags reach into the filter behind them.
NextClassify ==
    \/ \E p \in SessionPaths, alive \in BOOLEAN : SetSessionFile(p, alive)
    \/ \E msg \in Msgs, elapsed \in BOOLEAN, alive \in BOOLEAN : WriteSessionFile(msg, elapsed, alive)
    \/ HolderCommands
    \/ \E i \in 1..MaxHolders, f \in ClassifyFilterChoices : TaskSetFilters(i, f)
    \/ \E i \in 1..MaxHolders : TaskExecuteSearch(i)
    \/ \E i \in 1..MaxHolders : TaskDropHolder(i)

SpecClassify == Init /\ [][NextClassify]_vars

\* The actor with the session file and the holder, and search tasks with two filters or
\* with more filters than the index type counts.
NextMany ==
    \/ \E p \in SessionPaths, alive \in BOOLEAN : SetSessionFile(p, alive)
    \/ \E msg \in Msgs, elapsed \in BOOLEAN, alive \in BOOLEAN : WriteSessionFile(msg, elapsed, alive)
    \/ \E alive \in BOOLEAN : GetSearchHolder(alive)
    \/ \E i \in 1..MaxHolders, f \in FilterChoices \cup {ManyFilters} : TaskSetFilters(i, f)
    \/ \E i \in 1..MaxHolders : TaskExecuteSearch(i)

SpecMany == Init /\ [][NextMany]_vars

\* A session that starts beside a session file of four lines and a result file that
\* searches of an earlier run left on disk (execute_search appends to one that exists).
InitGrab ==
    /\ state = InitState
    /\ state_cancellation_token = FALSE
    /\ running = TRUE
    /\ \E numbers \in ResultContents :
           fs = [p \in Paths |-> IF p = "ext" THEN File(GrabSessionContent)
                                 ELSE IF p = OutPath("ext") THEN File(numbers)
                                 ELSE NoFile]
    /\ holders = <<>>
    /\ cmd = "None"
    /\ before = Snapshot
    /\ trace = <<>>
    /\ written = <<>>
    /\ NothingSent

\* The actor with the commands that index the two files and grab from them.
NextGrab ==
    \/ \E p \in SessionPaths, alive \in BOOLEAN : SetSessionFile(p, alive)
    \/ \E alive \in BOOLEAN : UpdateSession(alive)
    \/ \E u \in UUIDS, p \in Paths, alive \in BOOLEAN : UpdateSearchResult(u, p, alive)
    \/ \E r \in GrabRanges, alive \in BOOLEAN : GrabSearch(r, alive)

SpecGrab == InitGrab /\ [][NextGrab]_vars

\* The task that has the holder gives it one filter and has its pattern built.
NextPattern ==
    \/ \E p \in SessionPaths, alive \in BOOLEAN : SetSessionFile(p, alive)
    \/ \E alive \in BOOLEAN : GetSearchHolder(alive)
    \/ \E i \in 1..MaxHolders, f \in PatternFilters : TaskSetFilters(i, <<f>>)
    \/ \E i \in 1..MaxHolders : TaskFilterAsRegex(i, 1)

SpecPattern == Init /\ [][NextPattern]_vars

\* The actor with every command it has, in any order, without the search tasks.
NextOrder ==
    \/ FileCommands
    \/ HolderCommands
    \/ ResultCommands
    \/ MapCommands
    \/ \E r \in GrabRanges, alive \in BOOLEAN : GrabSearch(r, alive)
    \/ \E r \in GrabRanges, alive \in BOOLEAN : Grab(r, alive)
    \/ \E alive \in BOOLEAN : GetStreamLen(alive)
    \/ \E alive \in BOOLEAN : CloseSession(alive)
    \/ Shutdown

SpecOrder == Init /\ [][NextOrder]_vars

----------------------------------------------------------------------------
(* Reading what the last command sent.                                     *)

Events(t) == SelectSeq(t, LAMBDA x : x.kind = "event")
EventNames(t) == [k \in 1..Len(Events(t)) |-> Events(t)[k].name]
Replies(t) == SelectSeq(t, LAMBDA x : x.kind = "reply")
HasReply(t) == Replies(t) # <<>>
TheReply(t) == Replies(t)[1]
RepliedOk(t) == HasReply(t) /\ TheReply(t).name = "Ok"
RepliedErr(t) == HasReply(t) /\ TheReply(t).name = "Err"
\* the reply of a command that answers with a bool
RepliedBool(t, b) == RepliedOk(t) /\ TheReply(t).val = BoolVal(b)
Delivered(t) == HasReply(t) /\ TheReply(t).delivered

Remove(s, i) == [k \in 1..(Len(s) - 1) |-> IF k < i THEN s[k] ELSE s[k + 1]]

HolderTag == state.search_holder.tag

\* The session file exists and holds no byte
EmptySessionFile ==
    /\ state.session_file # NoPath
    /\ fs[state.session_file].exists
    /\ fs[state.session_file].data = <<>>

\* The result file of the session's search exists
ResultFileExists == state.session_file # NoPath /\ fs[OutPath(state.session_file)].exists

----------------------------------------------------------------------------
(* The holder protocol.                                                    *)

C2_GetWhenNotInited ==
    [][(running /\ HolderTag = "NotInited" /\ cmd' = "GetSearchHolder")
         => IF state.session_file # NoPath
            THEN /\ RepliedOk(trace')
                 /\ TheReply(trace').val.holder.file_path = state.session_file
                 /\ TheReply(trace').val.holder.search_filters = <<>>
                 /\ TheReply(trace').val.holder.bytes_read = 0
                 /\ TheReply(trace').val.holder.lines_read = 0
                 /\ running' => /\ state' = [state EXCEPT !.search_holder = InUse]
                                /\ holders' = Append(holders, TheReply(trace').val.holder)
            ELSE /\ RepliedErr(trace')
                 /\ holders' = holders
                 /\ running' => state' = state]_vars

\* the first holder of a session was handed out
C2_Witness ==
    /\ cmd = "GetSearchHolder"
    /\ RepliedOk(trace) /\ Delivered(trace)
    /\ running /\ before.holder = "NotInited" /\ HolderTag = "InUse"
    /\ Len(holders) = 1
    /\ holders[1] = TheReply(trace).val.holder
    /\ holders[1].file_path = state.session_file
    /\ holders[1].search_filters = <<>>
    /\ holders[1].bytes_read = 0 /\ holders[1].lines_read = 0

\* C3: a SetSearchHolder in InUse is accepted and the state becomes Available(holder)
\* for Some(holder) and NotInited for None; in Available and NotInited it is answered
\* with an error and the holder state stays as it is.
C3_SetOnlyInUse ==
    [][(running /\ cmd' = "SetSearchHolder")
         => IF HolderTag = "InUse"
            THEN /\ RepliedOk(trace')
                 /\ running' =>
                       IF holders' = holders
                       THEN state'.search_holder = NotInited
                       ELSE \E i \in 1..Len(holders) :
                               /\ holders' = Remove(holders, i)
                               /\ state'.search_holder = Available(holders[i])
            ELSE /\ RepliedErr(trace')
                 /\ running' => state'.search_holder = state.search_holder]_vars

\* a SetSearchHolder was refused while a holder is stored
C3_Witness ==
    /\ cmd = "SetSearchHolder"
    /\ RepliedErr(trace) /\ Delivered(trace)
    /\ running /\ before.holder = "Available" /\ HolderTag = "Available"

\* C4: a SetSearchHolder(Some(h)) that is accepted leaves the state Available(h), and
\* a GetSearchHolder in Available hands out exactly the holder that is stored, with its
\* filters and its cursor, and the state becomes InUse.
C4_HolderRoundTrip ==
    [][/\ (running /\ running' /\ cmd' = "SetSearchHolder" /\ holders' # holders
              /\ RepliedOk(trace'))
            => \E i \in 1..Len(holders) :
                  /\ holders' = Remove(holders, i)
                  /\ state'.search_holder = Available(holders[i])
       /\ (running /\ HolderTag = "Available" /\ cmd' = "GetSearchHolder")
            => /\ RepliedOk(trace')
               /\ TheReply(trace').val = HolderVal(state.search_holder.holder)
               /\ running' => /\ holders' = Append(holders, state.search_holder.holder)
                              /\ state'.search_holder = InUse]_vars

\* a holder that came back with filters and a cursor was handed out again
C4_Witness ==
    /\ cmd = "GetSearchHolder"
    /\ RepliedOk(trace) /\ Delivered(trace)
    /\ running /\ before.holder = "Available" /\ HolderTag = "InUse"
    /\ holders = <<TheReply(trace).val.holder>>
    /\ holders[1].search_filters # <<>>
    /\ holders[1].bytes_read > 0

\* C5: while the holder is InUse every command but SetSearchHolder that the actor
\* survives leaves the holder state InUse.
C5_InUseFrame ==
    [][(running /\ running' /\ HolderTag = "InUse" /\ cmd' # "SetSearchHolder")
         => state'.search_holder = InUse]_vars

\* a write found new lines while the holder was taken, and no search ran
C5_Witness ==
    /\ cmd = "WriteSessionFile"
    /\ EventNames(trace) = <<"StreamUpdated">>
    /\ Delivered(trace)
    /\ running /\ before.holder = "InUse" /\ HolderTag = "InUse"
    /\ holders # <<>>

----------------------------------------------------------------------------
(* DropSearch.                                                             *)

\* C6: a DropSearch in InUse answers false, sends no event and changes nothing;
\* otherwise it sends SearchUpdated(0), then SearchMapUpdated(None), answers true,
\* and leaves no search grabber, the holder state NotInited and no match in the map.
C6_DropSearch ==
    [][(running /\ cmd' = "DropSearch")
         => IF HolderTag = "InUse"
            THEN /\ Events(trace') = <<>>
                 /\ RepliedBool(trace', FALSE)
                 /\ holders' = holders
                 /\ running' => (state' = state /\ fs' = fs)
            ELSE /\ EventNames(trace') = <<"SearchUpdated", "SearchMapUpdated">>
                 /\ Events(trace')[1].val = NumVal(0)
                 /\ Events(trace')[2].val = StrVal(None)
                 /\ RepliedBool(trace', TRUE)
                 /\ running' => /\ state'.search_grabber = NoGrabber
                                /\ state'.search_holder = NotInited
                                /\ state'.search_map.matches = <<>>]_vars

\* a DropSearch was answered false while the holder was out
C6_Witness ==
    /\ cmd = "DropSearch"
    /\ RepliedBool(trace, FALSE) /\ Delivered(trace)
    /\ Events(trace) = <<>>
    /\ running /\ before.holder = "InUse" /\ HolderTag = "InUse"

----------------------------------------------------------------------------
(* UpdateSession and the order of what is sent.                            *)

\* What one more UpdateSession does in the state as it is
NextUpdateSession == handle_update_session(state, fs, state_cancellation_token)

\* an Outcome without events, with the reply false
NothingNew(out) == out.events = <<>> /\ out.res.name = "Ok" /\ out.res.val = FALSE

C9_EventOrder ==
    cmd \in {"UpdateSession", "WriteSessionFile", "FlushSessionFile"}
      => EventNames(trace) \in {<<>>, <<"StreamUpdated">>,
                                <<"StreamUpdated", "SearchUpdated", "SearchMapUpdated">>}

\* an UpdateSession sent the three events
C9_Witness ==
    /\ cmd = "UpdateSession"
    /\ EventNames(trace) = <<"StreamUpdated", "SearchUpdated", "SearchMapUpdated">>
    /\ Delivered(trace)

\* C10: what a command that sends events sends is its events and then, last, its
\* one reply.
C10_EventsBeforeReply ==
    cmd \in {"UpdateSession", "WriteSessionFile", "FlushSessionFile",
             "FileRead", "SetMatches", "DropSearch"}
      => /\ trace # <<>>
         /\ trace[Len(trace)].kind = "reply"
         /\ \A k \in 1..(Len(trace) - 1) : trace[k].kind = "event"

\* a write sent the three events of an update and then its reply
C10_Witness ==
    /\ cmd = "WriteSessionFile"
    /\ Len(trace) = 4
    /\ trace[4].kind = "reply" /\ trace[4].delivered
    /\ EventNames(trace) = <<"StreamUpdated", "SearchUpdated", "SearchMapUpdated">>

----------------------------------------------------------------------------
(* The cancelling flag of UpdateSearchResult.                              *)

\* What an UpdateSearchResult(uuid, path) does in the state as it is
NextUpdateSearchResult(uuid, path) ==
    handle_update_search_result(state, fs, state_cancellation_token, uuid, path)

\* the outcome answers 0 and leaves the search grabber, the state and the files alone
AnswersZeroUntouched(out) ==
    /\ out.res = Ok(0)
    /\ out.events = <<>>
    /\ out.state = state
    /\ out.fs = fs

\* the outcome holds a search grabber that was rescanned and answers its line count
AnswersRescanned(out) ==
    /\ out.res.name = "Ok"
    /\ out.state.search_grabber.some
    /\ out.state.search_grabber.has_metadata
    /\ out.state.search_grabber.line_count = CountNL(fs[out.state.search_grabber.path].data)
    /\ out.res.val = out.state.search_grabber.line_count

\* NotifyCancelingOperation(u) flags u, NotifyCanceledOperation(u) takes the flag
\* away, and no other command the actor survives changes the flags
FlagsFollowNotifications ==
    /\ \A u \in UUIDS :
           /\ NotifyCancelingOperation(u) => u \in state'.cancelling_operations
           /\ NotifyCanceledOperation(u) => u \notin state'.cancelling_operations
    /\ (running' /\ cmd' \notin {"NotifyCancelingOperation", "NotifyCanceledOperation"})
          => state'.cancelling_operations = state.cancelling_operations
    /\ \A u \in UUIDS :
           (u \in state'.cancelling_operations /\ u \notin state.cancelling_operations)
              => cmd' = "NotifyCancelingOperation"
    /\ \A u \in UUIDS :
           (running' /\ u \notin state'.cancelling_operations /\ u \in state.cancelling_operations)
              => cmd' = "NotifyCanceledOperation"

----------------------------------------------------------------------------
(* The session file and its writer.                                        *)

\* The bytes of the session file
SessionFileData == fs[state.session_file].data

\* C12: after WriteSessionFile(s_1) ... WriteSessionFile(s_n) and a FlushSessionFile,
\* whichever of the writes were flushed at once and whichever were held back, the
\* session file holds exactly s_1 ... s_n, in this order.
C12_FlushedContent ==
    (running /\ cmd = "FlushSessionFile" /\ RepliedOk(trace) /\ written # <<>>)
      => /\ fs[state.session_file].exists
         /\ SessionFileData = Flatten(written)
         /\ state.session_writer.buf = <<>>

\* a FlushSessionFile brought held-back lines of two writes into the file
C12_Witness ==
    /\ cmd = "FlushSessionFile"
    /\ RepliedOk(trace) /\ Delivered(trace)
    /\ EventNames(trace) = <<"StreamUpdated">>
    /\ running
    /\ Len(written) = 2 /\ written[1] # written[2]
    /\ SessionFileData = Flatten(written)

\* What a WriteSessionFile(msg) does in the state as it is; elapsed says whether more
\* than NOTIFY_IN_MS have passed since the last flush
NextWrite(msg, elapsed) ==
    handle_write_session_file(state, fs, state_cancellation_token, msg, elapsed)

IsSuffix(t, s) == Len(t) <= Len(s) /\ SubSeq(s, Len(s) - Len(t) + 1, Len(s)) = t

\* the writer was flushed: its buffer is empty and the file ends with what it held
WriterFlushed(out, msg) ==
    /\ out.state.session_writer.some
    /\ out.state.session_writer.buf = <<>>
    /\ out.fs[state.session_file].exists
    /\ IsSuffix(state.session_writer.buf \o msg, out.fs[state.session_file].data)

\* the UpdateSession work ran: the content grabber was rescanned over the file
UpdateRan(out) ==
    /\ out.state.content_grabber.has_metadata
    /\ out.state.content_grabber.line_count = CountNL(out.fs[state.session_file].data)

\* the message was only taken into the writer and the dirty flag set
HeldBack(out, msg) ==
    /\ out.events = <<>>
    /\ out.res = Ok(FALSE)
    /\ out.state = [state EXCEPT !.session_has_updates = TRUE,
                                 !.session_writer = [some |-> TRUE, buf |-> @.buf \o msg]]

\* the content grabber counts more lines after the command than before it
FoundNewLines(out) ==
    log_entry_count(out.state.content_grabber) > log_entry_count(state.content_grabber)

\* the content grabber counts another number of lines after the command than before it
LineCountChanged(out) ==
    log_entry_count(out.state.content_grabber) # log_entry_count(state.content_grabber)

\* what C13 says of the flush and of the held-back write
Debounced(out, msg, elapsed) ==
    /\ out.res.name = "Ok"
    /\ elapsed => (WriterFlushed(out, msg) /\ UpdateRan(out))
    /\ ~elapsed => HeldBack(out, msg)

\* C13: a WriteSessionFile on a session with a session file flushes the writer and
\* runs the UpdateSession work when more than 250 ms have passed since the last flush,
\* and otherwise only sets the dirty flag, sends no event and leaves the grabbers as
\* they are; it answers true if and only if the UpdateSession work ran and found new
\* lines.
C13_AsStated ==
    (running /\ state.session_file # NoPath)
      => \A msg \in Msgs, elapsed \in BOOLEAN :
            /\ Debounced(NextWrite(msg, elapsed), msg, elapsed)
            /\ (NextWrite(msg, elapsed).res = Ok(TRUE))
                  <=> (elapsed /\ FoundNewLines(NextWrite(msg, elapsed)))

\* The same with an answer of true if and only if the UpdateSession work ran and the
\* line count changed.
C13_WithLineCountChanged ==
    (running /\ state.session_file # NoPath)
      => \A msg \in Msgs, elapsed \in BOOLEAN :
            /\ Debounced(NextWrite(msg, elapsed), msg, elapsed)
            /\ (NextWrite(msg, elapsed).res = Ok(TRUE))
                  <=> (elapsed /\ LineCountChanged(NextWrite(msg, elapsed)))

\* What a FlushSessionFile does in the state as it is
NextFlush == handle_flush_session_file(state, fs, state_cancellation_token)

\* The state and the files once the writer is flushed and the dirty flag cleared
FlushedState ==
    [state EXCEPT !.session_writer.buf = <<>>, !.session_has_updates = FALSE]
FlushedFiles ==
    [fs EXCEPT ![state.session_file].data = @ \o state.session_writer.buf]

\* out is what the UpdateSession work does once the writer is flushed and the flag
\* cleared, with () for the answer of UpdateSession
FlushedAndUpdated(out, upd) ==
    /\ out.state = upd.state
    /\ out.fs = upd.fs
    /\ out.events = upd.events
    /\ upd.res.name = "Ok"
    /\ out.res = Ok(Unit)
    /\ ~out.state.session_has_updates
    /\ out.state.session_writer.buf = <<>>
    /\ UpdateRan(out)

\* C14: a FlushSessionFile with the dirty flag set flushes the writer, clears the flag
\* and runs the UpdateSession work; with the flag not set it flushes nothing, sends no
\* event and changes no state; with no session file assigned it answers with an error.
C14_Flush ==
    running
      => IF state.session_file = NoPath
         THEN NextFlush.res.name = "Err" /\ NextFlush.events = <<>>
              /\ NextFlush.state = state /\ NextFlush.fs = fs
         ELSE IF state.session_has_updates
         THEN /\ state.session_writer.some
              /\ FlushedAndUpdated(NextFlush,
                     handle_update_session(FlushedState, FlushedFiles,
                                           state_cancellation_token))
         ELSE /\ NextFlush = Outcome(state, fs, <<>>, Ok(Unit))
              /\ state.session_writer.buf = <<>>

\* a FlushSessionFile found held-back lines and ran the search over them
C14_Witness ==
    /\ cmd = "FlushSessionFile"
    /\ RepliedOk(trace) /\ Delivered(trace)
    /\ EventNames(trace) = <<"StreamUpdated", "SearchUpdated", "SearchMapUpdated">>
    /\ running
    /\ ~state.session_has_updates
    /\ state.session_writer.some /\ state.session_writer.buf = <<>>

----------------------------------------------------------------------------
(* Shutdown and the ownership of the session file.                         *)

\* the step removes the file at path
Deleted(path) == fs[path].exists /\ ~fs'[path].exists

\* the session file is the one SetSessionFile(ToBeCreated) created
OwnedSessionFile(path) == state.session_file = path /\ path = "own"

\* C15: Shutdown cancels the state token and ends the loop, and on exit the actor
\* deletes the session file if and only if the session owns it (it was created by
\* SetSessionFile(ToBeCreated), not adopted with Existed(path)) and it still exists,
\* whether or not anything was written to it.
C15_AsStated ==
    [][Shutdown
         => /\ state_cancellation_token'
            /\ ~running'
            /\ \A p \in SessionPaths :
                   Deleted(p) <=> (OwnedSessionFile(p) /\ fs[p].exists)]_vars

\* The same with the file deleted if and only if the session has a writer on it.
C15_WithWriter ==
    [][Shutdown
         => /\ state_cancellation_token'
            /\ ~running'
            /\ \A p \in SessionPaths :
                   Deleted(p) <=> (state.session_file = p /\ state.session_writer.some
                                     /\ fs[p].exists)]_vars

IsPrefix(t, s) == Len(t) <= Len(s) /\ SubSeq(s, 1, Len(t)) = t

\* the step leaves the file at path in place, with the bytes it had at its start
BytesKept(path) == fs[path].exists => (fs'[path].exists /\ IsPrefix(fs[path].data, fs'[path].data))

\* C16: the session file is append-only for the actor: no command the running actor
\* handles removes or overwrites bytes that were in the session file, the first
\* WriteSessionFile after SetSessionFile(Existed(path)) on a file with content included.
C16_AsStated ==
    [][(running /\ running') => \A p \in SessionPaths : BytesKept(p)]_vars

\* The same for the file that SetSessionFile(ToBeCreated) created only.
C16_CreatedFileAppendOnly ==
    [][(running /\ running') => BytesKept("own")]_vars

----------------------------------------------------------------------------
(* The search map.                                                         *)

\* the matches of SetMatches(m): those of m, none for None
MatchesOf(m) == IF m.some THEN m.v ELSE <<>>

\* the serialization SetMatches(m) sends: that of m, None for None
SerializationOf(m) == IF m.some THEN Some(map_as_str(m.v)) ELSE None

\* C17: SetMatches(m) sends one SearchMapUpdated event with the serialization of m
\* (None for m = None) and leaves a map whose matches are exactly m (none for None),
\* whatever the map held before; GetSearchMap answers the map as it is.
C17_SetMatchesRoundTrip ==
    [][/\ \A m \in MatchesChoices, alive \in BOOLEAN :
              SetMatches(m, alive)
                => /\ EventNames(trace') = <<"SearchMapUpdated">>
                   /\ Events(trace')[1].val = StrVal(SerializationOf(m))
                   /\ RepliedOk(trace')
                   /\ alive => /\ state'.search_map.matches = MatchesOf(m)
                               /\ MapVal(state'.search_map).matches = MatchesOf(m)
       /\ \A alive \in BOOLEAN :
              GetSearchMap(alive)
                => /\ Events(trace') = <<>>
                   /\ RepliedOk(trace')
                   /\ TheReply(trace').val = MapVal(state.search_map)
                   /\ alive => state' = state]_vars

\* a SetMatches replaced the matches a search had put into the map
C17_Witness ==
    /\ cmd = "SetMatches"
    /\ RepliedOk(trace) /\ Delivered(trace)
    /\ running
    /\ before.matches /\ before.holder = "Available"
    /\ state.search_map.matches = <<FilterMatch(0, <<0>>)>>
    /\ Events(trace)[1].val = StrVal(Some(<<<<0, {0}>>>>))

\* the step ran handle_update_session (as UpdateSession, or as the update of a write
\* or of a flush), which ran the search and sent its three events
SearchRanInUpdate ==
    /\ running /\ running'
    /\ cmd' \in {"UpdateSession", "WriteSessionFile", "FlushSessionFile"}
    /\ EventNames(trace') = <<"StreamUpdated", "SearchUpdated", "SearchMapUpdated">>

\* the matches the step added to the end of the map
NewMatches == DropFirst(state'.search_map.matches, Len(state.search_map.matches))

\* SearchUpdated carries the line count of the result file after the rescan
SearchUpdatedCount ==
    /\ fs'[OutPath(state.session_file)].exists
    /\ Events(trace')[2].val = NumVal(CountNL(fs'[OutPath(state.session_file)].data))

\* C18: the SearchMapUpdated event of a handle_update_session that ran the search carries the
\* serialization of the matches that run found, the ones it appended to the map, and
\* its SearchUpdated event carries the line count of the result file after the rescan.
C18_AsStated ==
    [][SearchRanInUpdate
         => /\ IsPrefix(state.search_map.matches, state'.search_map.matches)
            /\ Events(trace')[3].val = StrVal(Some(map_as_str(NewMatches)))
            /\ SearchUpdatedCount]_vars

\* The same with a SearchMapUpdated event that carries the serialization of no match.
C18_WithNoMatchSerialized ==
    [][SearchRanInUpdate
         => /\ IsPrefix(state.search_map.matches, state'.search_map.matches)
            /\ Events(trace')[3].val = StrVal(Some(map_as_str(<<>>)))
            /\ SearchUpdatedCount]_vars

\* no two entries of the search map have the same line index
NoDuplicateIndex ==
    \A i, j \in 1..Len(state.search_map.matches) :
       i # j => state.search_map.matches[i].index # state.search_map.matches[j].index

\* the lines of the session file, the writer's buffer included
SessionLines == Lines(fs[state.session_file].data \o state.session_writer.buf)

\* every entry carries all the filters of its search that match its line
EntriesCarryAllFilters ==
    \A i \in 1..Len(state.search_map.matches) :
       LET e == state.search_map.matches[i]
       IN  e.index < Len(SessionLines)
             => \E f \in FilterChoices : e.filters = line_filters(f, SessionLines[e.index + 1])

\* C19: in every state reached by the searches of UpdateSession, without SetMatches,
\* the search map holds no two entries with the same line index, and the entry of a
\* line that matches k filters carries all k filter indices.
C19_AsStated ==
    (running /\ state.session_file # NoPath)
      => (NoDuplicateIndex /\ EntriesCarryAllFilters)

----------------------------------------------------------------------------
(* The line indices in the result file.                                    *)

\* what the step appended to the file at path (all of it where the step created it)
Appended(path) ==
    IF fs[path].exists /\ IsPrefix(fs[path].data, fs'[path].data)
    THEN DropFirst(fs'[path].data, Len(fs[path].data))
    ELSE fs'[path].data

\* the line indices the step wrote to the result file of the session
IndicesWritten ==
    IF fs'[OutPath(state.session_file)].exists
    THEN {FromDecimal(l) : l \in Range(Lines(Appended(OutPath(state.session_file))))}
    ELSE {}

\* C20: every line index appended to the result file is at least 0 and smaller than
\* the line count of the content grabber at the moment it is written, in a search run
\* by handle_update_session and in a search run by a task on a holder it took with
\* GetSearchHolder while the actor handles WriteSessionFile commands.
C20_AsStated ==
    [][(running /\ running' /\ state.session_file # NoPath)
         => \A n \in IndicesWritten :
               n >= 0 /\ n < log_entry_count(state'.content_grabber)]_vars

----------------------------------------------------------------------------
(* The cursor of a SearchHolder over its runs.                             *)

\* the cursor of g is not behind the cursor of h
CursorNotBehind(h, g) == g.bytes_read >= h.bytes_read /\ g.lines_read >= h.lines_read

\* the step is a handle_update_session that keeps the holder of the session
SearchedInActor ==
    /\ running /\ running'
    /\ cmd' \in {"UpdateSession", "WriteSessionFile", "FlushSessionFile"}
    /\ state.search_holder.tag = "Available"
    /\ state'.search_holder.tag = "Available"

\* C21: over the execute_search runs on one holder, by the task that took it and by
\* handle_update_session on the holder of the session, with no DropSearch in between,
\* bytes_read and lines_read never decrease; runs that find no new data and runs that
\* end with an error are runs too.
C21_CursorMonotone ==
    [][/\ \A i \in 1..MaxHolders :
             TaskExecuteSearch(i) => CursorNotBehind(holders[i], holders'[i])
       /\ SearchedInActor
             => CursorNotBehind(state.search_holder.holder, state'.search_holder.holder)]_vars

\* a task has run a search on a holder that had read lines before and found no new data
C21_Witness ==
    /\ cmd = "execute_search"
    /\ \E i \in 1..Len(holders) :
          /\ holders[i].lines_read > 0
          /\ fs[holders[i].file_path].exists
          /\ holders[i].bytes_read > Len(fs[holders[i].file_path].data)

\* the holders that can run a search: those the tasks hold and the Available one
Searchers ==
    Range(holders) \cup
        (IF state.search_holder.tag = "Available" THEN {state.search_holder.holder} ELSE {})

\* the 0-based offset where the next run of h starts to read
ScanStart(h) == h.bytes_read + 1

\* offset off of data is the first byte of a line
LineStart(data, off) == off = 0 \/ (off <= Len(data) /\ data[off] = NL)

\* the next run of h begins at the first byte of a line, where bytes are left to read
AtFirstUnreadLine(h, data) == ScanStart(h) < Len(data) => LineStart(data, ScanStart(h))

\* the bytes before offset off
BytesBefore(data, off) == SubSeq(data, 1, IF off < Len(data) THEN off ELSE Len(data))

\* lines_read is the number of line ends before the place the next run starts at
LinesCrossed(h, data) == h.lines_read = CountNL(BytesBefore(data, ScanStart(h)))

\* C22: before and after every execute_search run, from a fresh holder with cursor
\* (0, 0) on, the scan that starts at bytes_read + 1 begins at the first byte of the
\* first unread line, and lines_read is the number of complete lines whose end of
\* line has been crossed.
C22_AsStated ==
    \A h \in Searchers :
       fs[h.file_path].exists
         => /\ AtFirstUnreadLine(h, fs[h.file_path].data)
            /\ LinesCrossed(h, fs[h.file_path].data)

----------------------------------------------------------------------------
(* What a run of a fresh holder finds.                                     *)

\* the count FilterStats has for filter idx, 0 when it has no entry for it
StatOf(stats, idx) ==
    IF \E e \in stats : e[1] = idx THEN (CHOOSE e \in stats : e[1] = idx)[2] ELSE 0

\* the number of the lines that the matcher of filter idx (0-based) matches
LinesMatching(filters, idx, lines) ==
    Cardinality({k \in 1..Len(lines) : regex_is_match(filter_as_regex(filters[idx + 1]), lines[k])})

\* the stats of run r of holder h are the counts of its filters over lines
StatsCount(h, r, lines) ==
    \A idx \in 0..(Len(h.search_filters) - 1) :
       StatOf(r.stats, idx) = LinesMatching(h.search_filters, idx, lines)

\* holder i is fresh and a task runs its first search, which succeeds
FirstRun(i) ==
    /\ TaskExecuteSearch(i)
    /\ holders[i].bytes_read = 0 /\ holders[i].lines_read = 0
    /\ execute_search(holders[i], fs).ok

\* C23: for every filter index the sum of FilterStats over the runs of a holder is the
\* number of the lines covered so far, line 0 included, that the filter's own matcher
\* matches; stated for the first run of a fresh holder, which covers the whole file.
C23_AsStated ==
    [][\A i \in 1..MaxHolders :
          FirstRun(i)
            => StatsCount(holders[i], execute_search(holders[i], fs),
                          Lines(fs[holders[i].file_path].data))]_vars

\* the same over the bytes the run reads: all but the first byte of the file
C23_OverBytesScanned ==
    [][\A i \in 1..MaxHolders :
          FirstRun(i)
            => StatsCount(holders[i], execute_search(holders[i], fs),
                          Lines(DropFirst(fs[holders[i].file_path].data, 1)))]_vars

----------------------------------------------------------------------------
(* Resuming a search after the file has grown.                             *)

\* the files with data as the content of the file at path
WithData(path, data) == [fs EXCEPT ![path] = File(data)]

\* the line indices a run returns, in order
Indices(r) == [n \in 1..Len(r.matches) |-> r.matches[n].index]

\* a holder like h before its first run
Fresh(h) == SearchHolder_new(h.file_path, h.search_filters)

\* the first run of a holder like h when the file held only its first k bytes
RunOverFirst(h, k) ==
    execute_search(Fresh(h), WithData(h.file_path, SubSeq(fs[h.file_path].data, 1, k)))

\* data is made of newline-terminated lines, at least one
TerminatedLines(data) == data # <<>> /\ data[Len(data)] = NL

\* the lengths k for which h is as its first run over the first k bytes left it, these
\* bytes being newline-terminated lines and the bytes after them too
SearchedOnceUpTo(h) ==
    {k \in 1..(Len(fs[h.file_path].data) - 1) :
        /\ TerminatedLines(SubSeq(fs[h.file_path].data, 1, k))
        /\ TerminatedLines(fs[h.file_path].data)
        /\ RunOverFirst(h, k).ok
        /\ RunOverFirst(h, k).holder = h}

NoIndexTwice(idx) == \A m, n \in 1..Len(idx) : m # n => idx[m] # idx[n]

\* the second run of h after the first over k bytes gives, with it, what one run gives
ResumedAsWhole(h, k) ==
    /\ Indices(RunOverFirst(h, k)) \o Indices(execute_search(h, fs))
           = Indices(execute_search(Fresh(h), fs))
    /\ NoIndexTwice(Indices(RunOverFirst(h, k)) \o Indices(execute_search(h, fs)))

\* C24: a file of newline-terminated lines is searched once, more newline-terminated
\* lines are appended and the same holder searches again: the indices of the two runs
\* together are the indices of one run of a fresh holder over the whole file, and no
\* index comes twice.
C24_AsStated ==
    [][\A i \in 1..MaxHolders :
          (TaskExecuteSearch(i) /\ fs[holders[i].file_path].exists)
            => \A k \in SearchedOnceUpTo(holders[i]) : ResumedAsWhole(holders[i], k)]_vars

----------------------------------------------------------------------------
(* The result file of a first run.                                         *)

\* the 0-based indices, ascending, of the lines that the own matcher of at least one
\* filter matches, each filter with its own flags
MatchedIndices(filters, lines) ==
    SelectSeq([k \in 1..Len(lines) |-> k - 1],
              LAMBDA n : \E f \in 1..Len(filters) :
                            regex_is_match(filter_as_regex(filters[f]), lines[n + 1]))

\* C25: the first run of a fresh holder writes to the result file, one per line and
\* ascending, exactly the 0-based indices of the lines of the file that match at least
\* one filter, each filter applied with its own ignore_case flag.
C25_AsStated ==
    [][\A i \in 1..MaxHolders :
          FirstRun(i)
            => Appended(holders[i].out_file_path)
                 = DecimalLines(MatchedIndices(holders[i].search_filters,
                                               Lines(fs[holders[i].file_path].data)))]_vars

\* the same over the bytes the run reads: all but the first byte of the file
C25_OverBytesScanned ==
    [][\A i \in 1..MaxHolders :
          FirstRun(i)
            => Appended(holders[i].out_file_path)
                 = DecimalLines(MatchedIndices(holders[i].search_filters,
                                   Lines(DropFirst(fs[holders[i].file_path].data, 1))))]_vars

----------------------------------------------------------------------------
(* A search that is cancelled while it scans.                              *)

\* the run of holder i that the step cut short, as the step left it
StoppedRun(i, kept, back) == execute_search_cancelled(holders[i], fs, kept, back)

\* the matches of the cut run are a prefix of those of the run that is not cut
PartialIsPrefix(i, kept, back) ==
    /\ StoppedRun(i, kept, back).ok
    /\ IsPrefix(Indices(StoppedRun(i, kept, back)), Indices(execute_search(holders[i], fs)))

\* bytes_read is not behind the end of the file, the furthest the lines consumed go
NotPastConsumed(i) == holders'[i].bytes_read <= Len(fs[holders[i].file_path].data)

\* a later run of the holder gives the matches the cut run left, with the line
\* indices the run that is not cut gives them
LaterRunCompletes(i, kept, back) ==
    Indices(StoppedRun(i, kept, back)) \o Indices(execute_search(holders'[i], fs'))
        = Indices(execute_search(holders[i], fs))

C26_PartialData ==
    [][\A i \in 1..MaxHolders, kept \in 1..MaxMapBytes, back \in 0..1 :
          TaskExecuteSearchCancelled(i, kept, back)
            => /\ PartialIsPrefix(i, kept, back)
               /\ NotPastConsumed(i)]_vars

----------------------------------------------------------------------------
(* Filters execute_search refuses.                                         *)

NoFilters(h) == h.search_filters = <<>>

\* a filter of h is no regular expression
FilterDoesNotCompile(h) ==
    \E f \in 1..Len(h.search_filters) : ~regex_compiles(filter_as_regex(h.search_filters[f]))

\* execute_search on h answers the error and leaves no partial result
FailsWith(h, err) ==
    /\ ~execute_search(h, fs).ok
    /\ execute_search(h, fs).err = err
    /\ execute_search(h, fs).matches = <<>>

\* C27: execute_search fails before it scans, with Input when the filter list is empty
\* and with Regex when a filter does not compile, whether the file exists or not; the
\* run, by a task or in handle_update_session, writes nothing to the result file, does
\* not create it, and leaves bytes_read and lines_read as they were.
C27_FailsBeforeScanning ==
    [][/\ \A i \in 1..MaxHolders :
             (TaskExecuteSearch(i) /\ (NoFilters(holders[i]) \/ FilterDoesNotCompile(holders[i])))
               => /\ FailsWith(holders[i], IF NoFilters(holders[i]) THEN "Input" ELSE "Regex")
                  /\ holders' = holders
                  /\ fs' = fs
       /\ (SearchedInActor /\ (NoFilters(state.search_holder.holder)
                                 \/ FilterDoesNotCompile(state.search_holder.holder)))
             => /\ state'.search_holder = state.search_holder
                /\ fs'[state.search_holder.holder.out_file_path]
                       = fs[state.search_holder.holder.out_file_path]]_vars

\* a task has run a search with a filter that does not compile, beside a filter that
\* matches a line of the file: no result file, the cursor where it was
C27_Witness ==
    /\ cmd = "execute_search"
    /\ Len(holders) = 1
    /\ FilterDoesNotCompile(holders[1])
    /\ holders[1].search_filters[1] = FilterA
    /\ fs[holders[1].file_path].exists
    /\ fs[holders[1].file_path].data # <<>>
    /\ ~fs[holders[1].out_file_path].exists
    /\ holders[1].bytes_read = 0 /\ holders[1].lines_read = 0

----------------------------------------------------------------------------
(* GrabSearch.                                                             *)

\* GrabSearch on range as the state is
NextGrabSearch(range) == handle_grab_search(state, fs, range)

\* the search grabber has the lines of range and all of them are decimal numbers
Grabbable(range) ==
    /\ state.search_grabber.some
    /\ grab_content(state.search_grabber, fs, range).ok
    /\ \A k \in 1..(range.end - range.start + 1) :
          parses(grab_content(state.search_grabber, fs, range).elements[k].content)

\* the line numbers GrabSearch reads from the result file for range
GrabbedNumbers(range) ==
    [k \in 1..(range.end - range.start + 1) |->
        FromDecimal(grab_content(state.search_grabber, fs, range).elements[k].content)]

\* the length of the run nums begins with: it breaks where next # prev + 1
RECURSIVE RunLength(_)
RunLength(nums) ==
    IF Len(nums) <= 1 THEN Len(nums)
    ELSE IF nums[2] # nums[1] + 1 THEN 1
    ELSE 1 + RunLength(Tail(nums))

\* the maximal contiguous runs of nums, in order, each as <<lo, hi>>
RECURSIVE Runs(_)
Runs(nums) ==
    IF nums = <<>> THEN <<>>
    ELSE <<<<nums[1], nums[RunLength(nums)]>>>> \o Runs(DropFirst(nums, RunLength(nums)))

\* every number of nums lies in one of the ranges
Covered(nums, ranges) ==
    \A k \in 1..Len(nums) : \E r \in 1..Len(ranges) : ranges[r][1] <= nums[k] /\ nums[k] <= ranges[r][2]

\* C28: for any list of line numbers GrabSearch reads from the result file, the ranges
\* grabbed from the content grabber are exactly the maximal contiguous inclusive runs of
\* the list in order (a run breaks whenever next # prev + 1); the last run is always
\* grabbed, so every number of the list is covered by one grabbed range.
C28_AsStated ==
    \A range \in GrabRanges :
       Grabbable(range)
         => /\ grab_ranges(GrabbedNumbers(range)) = Runs(GrabbedNumbers(range))
            /\ Covered(GrabbedNumbers(range), grab_ranges(GrabbedNumbers(range)))

StrictlyAscending(nums) == \A k \in 1..(Len(nums) - 1) : nums[k] < nums[k + 1]

\* the same for the lists whose numbers ascend
C28_Ascending ==
    \A range \in GrabRanges :
       (Grabbable(range) /\ StrictlyAscending(GrabbedNumbers(range)))
         => /\ grab_ranges(GrabbedNumbers(range)) = Runs(GrabbedNumbers(range))
            /\ Covered(GrabbedNumbers(range), grab_ranges(GrabbedNumbers(range)))

\* the search grabber has the lines of range and one of them is not a decimal number
NotANumber(range) ==
    /\ state.search_grabber.some
    /\ grab_content(state.search_grabber, fs, range).ok
    /\ \E k \in 1..(range.end - range.start + 1) :
          ~parses(grab_content(state.search_grabber, fs, range).elements[k].content)

\* an outcome that is an error and leaves the state and the files as they are
FailsUnchanged(o) == o.res.name = "Err" /\ o.state = state /\ o.fs = fs

\* elements has one element per number, the k-th with the k-th number as pos and with
\* row counted from start
OnePerNumber(elements, nums, start) ==
    /\ Len(elements) = Len(nums)
    /\ \A k \in 1..Len(elements) :
          k <= Len(nums) => elements[k].pos = nums[k] /\ elements[k].row = start + k - 1

AscendingPos(elements) ==
    \A k \in 1..(Len(elements) - 1) : elements[k].pos < elements[k + 1].pos

\* the elements are the lines of the session file at their pos
LinesAtPos(elements) ==
    \A k \in 1..Len(elements) :
       /\ elements[k].pos + 1 \in 1..Len(Lines(fs[state.content_grabber.path].data))
       /\ elements[k].content = Lines(fs[state.content_grabber.path].data)[elements[k].pos + 1]

\* C29: the elements GrabSearch returns are in ascending line-number order, one per line
\* number in the grabbed part of the result file, the k-th with row = range.start + k and
\* pos the k-th line number; with no search grabber, or with a result line that is not a
\* decimal number, GrabSearch replies with an error and changes no state.
C29_AsStated ==
    \A range \in GrabRanges :
       /\ (~state.search_grabber.some \/ NotANumber(range)) => FailsUnchanged(NextGrabSearch(range))
       /\ (Grabbable(range) /\ NextGrabSearch(range).res.name = "Ok")
             => /\ OnePerNumber(NextGrabSearch(range).res.val, GrabbedNumbers(range), range.start)
                /\ AscendingPos(NextGrabSearch(range).res.val)

\* the same for the result files whose numbers ascend, and the elements are the lines
C29_Ascending ==
    \A range \in GrabRanges :
       /\ (~state.search_grabber.some \/ NotANumber(range)) => FailsUnchanged(NextGrabSearch(range))
       /\ (Grabbable(range) /\ StrictlyAscending(GrabbedNumbers(range))
              /\ NextGrabSearch(range).res.name = "Ok")
             => /\ OnePerNumber(NextGrabSearch(range).res.val, GrabbedNumbers(range), range.start)
                /\ AscendingPos(NextGrabSearch(range).res.val)
                /\ LinesAtPos(NextGrabSearch(range).res.val)

\* a GrabSearch of two ascending numbers has replied with the two lines
C29_Grabbed ==
    /\ cmd = "GrabSearch"
    /\ Delivered(trace)
    /\ TheReply(trace).name = "Ok"
    /\ Len(TheReply(trace).val.grabbed) = 2
    /\ AscendingPos(TheReply(trace).val.grabbed)

\* a GrabSearch has failed on a line that is no number
C29_NotParsed ==
    cmd = "GrabSearch" /\ HasReply(trace) /\ TheReply(trace).name = "Err"
       /\ TheReply(trace).val.err = "OperationSearch"

----------------------------------------------------------------------------
(* Reply channels whose receiver is gone.                                  *)

\* the commands on the way to the end of the session
ShutdownCritical == {"CloseSession", "Shutdown"}

\* the reply of the command in t was sent to a receiver that was dropped
ReplyDropped(t) == HasReply(t) /\ ~TheReply(t).delivered

\* C30: a failed send on the reply channel of a command that is not on a shutdown-critical
\* path does not terminate the actor: run() is still in its loop afterwards and takes the
\* commands that follow.
C30_AsStated ==
    [][(running /\ cmd' \notin ShutdownCritical /\ ReplyDropped(trace')) => running']_vars

\* every failed send on a reply channel ends run()
C30_EndsRun ==
    [][(running /\ ReplyDropped(trace')) => ~running']_vars

----------------------------------------------------------------------------
(* The writer and the reader of the result file.                           *)

\* UpdateSearchResult(uuid, path) gets as far as update_from_file on the search grabber
Rescans(uuid, path) == uuid \notin state.cancelling_operations /\ fs[path].exists

\* C31: the search grabber is rescanned only in states where the holder is not InUse, in
\* every interleaving of GetSearchHolder, the search of the task, UpdateSearchResult,
\* UpdateSession and SetSearchHolder: the writer and the reader of the result file never
\* overlap.
C31_AsStated ==
    [][/\ \A u \in UUIDS, p \in Paths, alive \in BOOLEAN :
             (UpdateSearchResult(u, p, alive) /\ Rescans(u, p))
                => state.search_holder.tag # "InUse"
       /\ SearchRanInUpdate => state.search_holder.tag # "InUse"]_vars

\* the rescans of the search the actor runs itself find the holder Available
C31_InUpdate ==
    [][SearchRanInUpdate => state.search_holder.tag = "Available"]_vars

----------------------------------------------------------------------------
(* Commands in any order.                                                  *)

\* the command comes before the SetSessionFile, the search or the GetSearchHolder it needs
OutOfOrder(c) ==
    \/ /\ c \in {"WriteSessionFile", "FlushSessionFile", "UpdateSession", "Grab",
                 "GetStreamLen", "GetSearchHolder"}
       /\ state.session_file = NoPath
    \/ c = "GrabSearch" /\ ~state.search_grabber.some
    \/ c = "SetSearchHolder" /\ state.search_holder.tag # "InUse"

\* C32: whatever the order of the commands, a command the actor takes while it runs, whose
\* caller keeps the receiver and which is not Shutdown, leaves the actor running and gets
\* exactly one reply, and the reply is an error when the command is out of order (before
\* SetSessionFile, before any search, SetSearchHolder with no holder taken).
C32_AnsweredOnce ==
    [][(running /\ cmd' # "Shutdown" /\ ~ReplyDropped(trace'))
          => /\ running'
             /\ Len(Replies(trace')) = 1
             /\ TheReply(trace').delivered
             /\ OutOfOrder(cmd') => TheReply(trace').name = "Err"]_vars

\* a Grab before SetSessionFile was answered with an error and the actor runs on
C32_Witness ==
    /\ running
    /\ cmd = "Grab"
    /\ state.session_file = NoPath
    /\ Len(Replies(trace)) = 1
    /\ TheReply(trace).name = "Err"
    /\ TheReply(trace).delivered

----------------------------------------------------------------------------
(* The pattern of a filter.                                                *)

\* the characters the claim lists for the backslash
ListedChars == {"{", "}", "[", "]", "+", "$", "^", "/", "!", ".", "*", "|", "(", ")",
                ":", "?", ",", "=", "<", ">", "\\"}

\* how many of the first k characters of value are listed
ListedUpTo(value, k) == Cardinality({j \in 1..k : value[j] \in ListedChars})

\* subject is value with a backslash before every listed character and nothing else changed
BackslashBeforeListed(subject, value) ==
    /\ Len(subject) = Len(value) + ListedUpTo(value, Len(value))
    /\ \A k \in 1..Len(value) :
          /\ subject[k + ListedUpTo(value, k)] = value[k]
          /\ value[k] \in ListedChars => subject[k + ListedUpTo(value, k) - 1] = "\\"

\* the length of a part that is there only when its flag is set
PartLen(flag, part) == IF flag THEN Len(part) ELSE 0

\* the part of out between from and to, both inclusive and counted from 1
Slice(out, from, to) == [k \in 1..(to - from + 1) |-> out[from + k - 1]]

\* out is made of the five parts in their order, for a filter f
FiveParts(out, f) ==
    /\ Len(out) >= PartLen(f.ignore_case, <<"(", "?", "i", ")">>)
                     + 2 * PartLen(f.is_word, <<"\\", "b">>)
                     + PartLen(f.ignore_case, <<"(", "?", "-", "i", ")">>)
    /\ f.ignore_case => Slice(out, 1, 4) = <<"(", "?", "i", ")">>
    /\ f.ignore_case => Slice(out, Len(out) - 4, Len(out)) = <<"(", "?", "-", "i", ")">>
    /\ f.is_word => Slice(out, PartLen(f.ignore_case, <<"(", "?", "i", ")">>) + 1,
                          PartLen(f.ignore_case, <<"(", "?", "i", ")">>) + 2) = <<"\\", "b">>
    /\ f.is_word => Slice(out, Len(out) - PartLen(f.ignore_case, <<"(", "?", "-", "i", ")">>) - 1,
                          Len(out) - PartLen(f.ignore_case, <<"(", "?", "-", "i", ")">>))
                       = <<"\\", "b">>

\* what is left of out between the markers of f
SubjectOf(out, f) ==
    Slice(out,
          PartLen(f.ignore_case, <<"(", "?", "i", ")">>) + PartLen(f.is_word, <<"\\", "b">>) + 1,
          Len(out) - PartLen(f.ignore_case, <<"(", "?", "-", "i", ")">>)
                   - PartLen(f.is_word, <<"\\", "b">>))

\* the pattern the last step built, and the filter it was built of
PatternBuilt == trace[1].val.map
PatternFilter == holders[1].search_filters[1]

\* C33: filter_as_regex builds the pattern as ignore_case_on, word boundary, subject, word
\* boundary, ignore_case_off in that order, each part there only when its flag is set; the
\* subject is the value itself when is_regex, and otherwise the value with a backslash
\* before every character of {}[]+$^/!.*|():?,=<>\ and all other characters unchanged.
C33_PatternParts ==
    cmd = "filter_as_regex"
       => /\ FiveParts(PatternBuilt, PatternFilter)
          /\ PatternFilter.is_regex => SubjectOf(PatternBuilt, PatternFilter) = PatternFilter.value
          /\ ~PatternFilter.is_regex
                => BackslashBeforeListed(SubjectOf(PatternBuilt, PatternFilter), PatternFilter.value)

\* the pattern of the literal "a." as a word without case: (?i)\ba\.\b(?-i)
C33_Witness ==
    /\ cmd = "filter_as_regex"
    /\ PatternFilter = [value |-> <<"a", ".">>, is_regex |-> FALSE, ignore_case |-> TRUE,
                        is_word |-> TRUE]
    /\ PatternBuilt = <<"(", "?", "i", ")", "\\", "b", "a", "\\", ".", "\\", "b",
                        "(", "?", "-", "i", ")">>

----------------------------------------------------------------------------
(* The filters of a match.                                                 *)

\* every match of the run r names a filter
EveryMatchHasFilter(r) == \A n \in 1..Len(r.matches) : r.matches[n].filters # <<>>

\* C34: every FilterMatch execute_search produces has a filter set that is not empty:
\* whenever the combined matcher reports a line, the matcher of at least one filter
\* matches the line, for every list of filters that compiles.
C34_AsStated ==
    \A h \in Searchers : execute_search(h, fs).ok => EveryMatchHasFilter(execute_search(h, fs))

\* the same for the filter lists in which no value sets a flag of its own
C34_OwnFlagsOnly ==
    \A h \in Searchers :
       (execute_search(h, fs).ok /\ h.search_filters \in FilterChoices)
          => EveryMatchHasFilter(execute_search(h, fs))

----------------------------------------------------------------------------
(* A session file that ends before the cursor.                             *)

\* execute_search on h gets as far as the seek: filters that compile, a file to open
ReachesSeek(h) ==
    /\ ~NoFilters(h)
    /\ regex_compiles(combined_regex(h.search_filters))
    /\ ~FilterDoesNotCompile(h)
    /\ fs[h.file_path].exists

\* the session file of h is shorter than the position the run seeks to
EndsBeforeCursor(h) == Len(fs[h.file_path].data) < h.bytes_read + 1

\* C35: when the session file is shorter than the cursor position bytes_read + 1 at the
\* start of execute_search, the run ends with an IoOperation error and writes nothing to
\* the result file; it does not succeed with an empty batch and an advanced cursor.
C35_AsStated ==
    \A h \in Searchers :
       (ReachesSeek(h) /\ EndsBeforeCursor(h))
          => /\ FailsWith(h, "Grab")
             /\ execute_search(h, fs).fs[h.out_file_path].data = fs[h.out_file_path].data
             /\ execute_search(h, fs).holder.bytes_read = h.bytes_read

\* what the run does then: it succeeds with no match, writes nothing, and the cursor is
\* one byte further
C35_EmptyBatch ==
    \A h \in Searchers :
       (ReachesSeek(h) /\ EndsBeforeCursor(h))
          => /\ execute_search(h, fs).ok
             /\ execute_search(h, fs).matches = <<>>
             /\ execute_search(h, fs).fs[h.out_file_path].data = fs[h.out_file_path].data
             /\ execute_search(h, fs).holder.bytes_read = h.bytes_read + 1

----------------------------------------------------------------------------
(* UpdateSession without a holder to search with.                          *)

\* the holder is handed out or there is none
NoHolderToSearch == state.search_holder.tag \in {"InUse", "NotInited"}

\* the outcome has the one event StreamUpdated and the reply true
OnlyStreamUpdated(out) ==
    /\ Len(out.events) = 1
    /\ out.events[1].name = "StreamUpdated"
    /\ out.res = Ok(TRUE)

\* the outcome leaves the search as it is: holder, map, search grabber and the files
SearchUntouched(out) ==
    /\ out.state.search_holder = state.search_holder
    /\ out.state.search_map = state.search_map
    /\ out.state.search_grabber = state.search_grabber
    /\ out.fs = fs

\* C36: an UpdateSession that finds new lines while the holder state is InUse or NotInited
\* emits only StreamUpdated and replies true; it runs no search and leaves the holder
\* state, the SearchMap, the search grabber and the result file unchanged.
C36_OnlyStreamUpdated ==
    (running /\ NoHolderToSearch /\ FoundNewLines(NextUpdateSession))
       => OnlyStreamUpdated(NextUpdateSession) /\ SearchUntouched(NextUpdateSession)

\* an UpdateSession has found new lines while the holder was with a task
C36_Witness ==
    /\ running
    /\ cmd = "UpdateSession"
    /\ before.holder = "InUse"
    /\ state.search_holder.tag = "InUse"
    /\ EventNames(trace) = <<"StreamUpdated">>
    /\ RepliedBool(trace, TRUE)

----------------------------------------------------------------------------
(* The outputs of one run.                                                 *)

\* the number of matches of r whose filter set contains idx
MatchesWith(r, idx) == Cardinality({n \in 1..Len(r.matches) : idx \in Range(r.matches[n].filters)})

\* what the run r on h appended to the result file
AppendedBy(h, r) ==
    DropFirst(r.fs[h.out_file_path].data,
              IF fs[h.out_file_path].exists THEN Len(fs[h.out_file_path].data) ELSE 0)

\* the stats of r agree with its matches, and the result file with their indices
OutputsAgree(h, r) ==
    /\ \A idx \in 0..(MaxIndexValues - 1) : StatOf(r.stats, idx) = MatchesWith(r, idx)
    /\ AppendedBy(h, r) = DecimalLines(Indices(r))

\* C37: within one run of execute_search the outputs agree: for every filter index i
\* FilterStats[i] is the number of the returned FilterMatch entries whose filter set
\* contains i, and the indices the run appends to the result file are the line_index
\* values of the returned vector, in order.
C37_AsStated ==
    \A h \in Searchers : execute_search(h, fs).ok => OutputsAgree(h, execute_search(h, fs))

\* the same for the holders with no more filters than the index type has values
C37_IndexFits ==
    \A h \in Searchers :
       (execute_search(h, fs).ok /\ Len(h.search_filters) <= MaxIndexValues)
          => OutputsAgree(h, execute_search(h, fs))

----------------------------------------------------------------------------
(* The stream length.                                                      *)

\* what a GetStreamLen would answer now
StreamLen == handle_get_stream_len(state, fs).res

\* the StreamUpdated events of t
StreamUpdates(t) == SelectSeq(Events(t), LAMBDA x : x.name = "StreamUpdated")

\* the n of the last StreamUpdated(n) of t
LastStreamUpdated(t) == StreamUpdates(t)[Len(StreamUpdates(t))].val.num

\* the reply of t is the result res of handle_get_stream_len
AnswersStreamLen(t, res) ==
    /\ HasReply(t)
    /\ TheReply(t).name = res.name
    /\ res.name = "Ok" => TheReply(t).val = NumVal(res.val)

\* C38: stream length consistency: once a StreamUpdated(n) was emitted GetStreamLen
\* returns the n of the most recent StreamUpdated event, and the line count of the
\* content grabber never changes without a StreamUpdated event emitted by the same
\* command.  Step by step, while the actor runs: a command that emits StreamUpdated(n)
\* leaves n as the answer of GetStreamLen, a command that emits none leaves the line
\* count and an Ok answer as they were, and GetStreamLen replies with that answer.
C38_StreamLen ==
    [][running' =>
          /\ StreamUpdates(trace') # <<>> => StreamLen' = Ok(LastStreamUpdated(trace'))
          /\ StreamUpdates(trace') = <<>> =>
                 /\ log_entry_count(state'.content_grabber)
                       = log_entry_count(state.content_grabber)
                 /\ StreamLen.name = "Ok" => StreamLen' = StreamLen
          /\ cmd' = "GetStreamLen" => AnswersStreamLen(trace', StreamLen)]_vars

\* a GetStreamLen has answered with a count that an earlier StreamUpdated announced
C38_Witness ==
    /\ running
    /\ cmd = "GetStreamLen"
    /\ RepliedOk(trace)
    /\ TheReply(trace).val.num >= 1
    /\ StreamLen = Ok(TheReply(trace).val.num)

----------------------------------------------------------------------------
(* After Shutdown.                                                         *)

\* the actor has taken Shutdown, and no command since
ShutdownTaken == cmd = "Shutdown"

\* no caller is answered in the step
NobodyAnswered == \A c \in Callers : callers'[c] = "answered" => callers[c] = "answered"

\* C39: after the actor takes Shutdown from the queue it processes no further command:
\* the commands queued behind Shutdown cause no state change and no callback event, and
\* a caller that awaits the reply of such a command eventually gets a Channel error
\* instead of waiting forever.
C39_AfterShutdown ==
    /\ [][ShutdownTaken =>
             /\ UNCHANGED <<state, fs, holders, cmd, trace, running>>
             /\ NobodyAnswered]_vars
    /\ \A c \in Callers :
           (ShutdownTaken /\ callers[c] = "waiting") ~> (callers[c] = "no_response")

\* a command that waited behind Shutdown was dropped with the channel, and its caller
\* has the Channel error
C39_Witness ==
    /\ ShutdownTaken
    /\ ~running
    /\ rx_api.dropped
    /\ \E c \in Callers : callers[c] = "no_response"

----------------------------------------------------------------------------
(* The dirty flag of the session writer.                                   *)

\* the writer holds bytes of WriteSessionFile that are not in the file yet
Unflushed == state.session_writer.some /\ state.session_writer.buf # <<>>

\* the flush has brought the bytes of the buffer to the end of the session file
BufferFlushed(out) ==
    /\ out.state.session_writer.buf = <<>>
    /\ out.fs[state.session_file].data
          = fs[state.session_file].data \o state.session_writer.buf

\* C40: dirty-flag invariant: in every reachable state in which no write or flush has
\* failed, if the session writer holds bytes accepted by WriteSessionFile that have not
\* been flushed to the file, then session_has_updates is set, so that a following
\* FlushSessionFile flushes them.
C40_DirtyFlag ==
    Unflushed => (state.session_has_updates /\ BufferFlushed(NextFlush))

\* a WriteSessionFile has left its message in the writer's buffer
C40_Witness ==
    /\ running
    /\ cmd = "WriteSessionFile"
    /\ RepliedBool(trace, FALSE)
    /\ Unflushed
    /\ state.session_has_updates

====
